---- MODULE Spec2Model ----
(***************************************************************************)
(* The persistence and social-counter layer of the community feed.         *)
(*                                                                         *)
(* Part I models the relational variant: the tables of                     *)
(* backend/config/database.js and the routers backend/routes/posts.js and  *)
(* backend/routes/comments.js (plus the feed of backend/server.js).  Every *)
(* SQL statement is atomic; a handler is suspended at each await, so the   *)
(* statements of two requests interleave.                                  *)
(***************************************************************************)
EXTENDS Integers, Sequences, FiniteSets, Bags, TLC

\* ------------------------------------------------------------------ bounds
MaxPosts == 2
MaxComments == 2
MaxRows == 3
MaxConcPosts == 1
MaxConcComments == 1
MaxSkew == 1
MaxSampleNew == 1
NumSlots == 2
MaxSession == 6
StartClock == 4
MaxTicks == 1
MaxApiPosts == 1
MaxApiComments == 2
MaxMongoComments == 1
MaxJobs == 1
MaxInFlight == 1
MaxRaceInFlight == 2
MaxBanSession == 4
MaxBanComments == 1
MaxBootSession == 2
MaxRestarts == 1
MaxFaultSession == 2
MaxPipeSession == 3
MaxSaved == 2

\* The two accounts the schema script creates.
UserIds == {1, 2}
Slots == 1..NumSlots

\* ------------------------------------------------------------- utilities
Max(S) == CHOOSE m \in S : \A x \in S : x <= m
Min(S) == CHOOSE m \in S : \A x \in S : m <= x

RECURSIVE SeqDesc(_)
SeqDesc(S) == IF S = {} THEN <<>> ELSE <<Max(S)>> \o SeqDesc(S \ {Max(S)})

RECURSIVE SeqAsc(_)
SeqAsc(S) == IF S = {} THEN <<>> ELSE <<Min(S)>> \o SeqAsc(S \ {Min(S)})

RECURSIVE Repeat(_, _)
Repeat(x, n) == IF n <= 0 THEN <<>> ELSE <<x>> \o Repeat(x, n - 1)

RECURSIVE Flatten(_)
Flatten(ss) == IF ss = <<>> THEN <<>> ELSE Head(ss) \o Flatten(Tail(ss))

\* Request bodies carry text as a sequence of characters.
Contents == {<<>>, <<" ">>, <<" ", "a">>}

\* String.prototype.trim: drop leading and trailing white space.
RECURSIVE TrimLeft(_)
TrimLeft(s) == IF s # <<>> /\ Head(s) = " " THEN TrimLeft(Tail(s)) ELSE s

RECURSIVE TrimRight(_)
TrimRight(s) ==
  IF s # <<>> /\ s[Len(s)] = " " THEN TrimRight(SubSeq(s, 1, Len(s) - 1)) ELSE s

Trim(s) == TrimRight(TrimLeft(s))

\* The check without its first half.
ContentMissingTrimOnly(content) == content # <<>> /\ Len(Trim(content)) = 0

\* `!content || content.trim().length === 0`
ContentMissing(content) == content = <<>> \/ Len(Trim(content)) = 0

\* ------------------------------------------------------------ the tables
\* posts:    id -> [user_id, content, likes_count, comments_count]
\* comments: id -> [post_id, user_id, content, likes_count]
\* post_likes, comment_likes: bags of rows <<subject id, user_id>> (the rows'
\* own id and created_at are never read).
NoRows == [x \in {} |-> 0]

\* The tables as initializeDatabase creates them.
EmptyDb ==
  [posts |-> NoRows, comments |-> NoRows,
   post_likes |-> NoRows, comment_likes |-> NoRows,
   nextPostId |-> 1, nextCommentId |-> 1]

\* The sample rows the schema script inserts after creating the tables.
SampleDb ==
  [posts |->
     (1 :> [user_id |-> 1, content |-> <<"a">>, likes_count |-> 5, comments_count |-> 2]) @@
     (2 :> [user_id |-> 1, content |-> <<"a">>, likes_count |-> 3, comments_count |-> 1]) @@
     (3 :> [user_id |-> 2, content |-> <<"a">>, likes_count |-> 8, comments_count |-> 3]),
   comments |->
     (1 :> [post_id |-> 1, user_id |-> 2, content |-> <<"a">>, likes_count |-> 2]) @@
     (2 :> [post_id |-> 1, user_id |-> 1, content |-> <<"a">>, likes_count |-> 1]) @@
     (3 :> [post_id |-> 2, user_id |-> 2, content |-> <<"a">>, likes_count |-> 0]) @@
     (4 :> [post_id |-> 3, user_id |-> 1, content |-> <<"a">>, likes_count |-> 1]) @@
     (5 :> [post_id |-> 3, user_id |-> 2, content |-> <<"a">>, likes_count |-> 3]),
   post_likes |-> NoRows, comment_likes |-> NoRows,
   nextPostId |-> 4, nextCommentId |-> 6]

Restrict(f, S) == [x \in S |-> f[x]]

\* The rows of a like table that are on none of the subjects.
RowsOff(likes, subjects) == Restrict(likes, {row \in DOMAIN likes : row[1] \notin subjects})

RowCount(likes, subject, user) == CopiesIn(<<subject, user>>, likes)

\* INSERT INTO posts (user_id, content, image_url): AUTO_INCREMENT id,
\* likes_count and comments_count DEFAULT 0.
InsertPost(d, user, content) ==
  [d EXCEPT !.posts = d.posts @@ (d.nextPostId :>
              [user_id |-> user, content |-> content,
               likes_count |-> 0, comments_count |-> 0]),
            !.nextPostId = d.nextPostId + 1]

\* FOREIGN KEY (post_id) REFERENCES posts(id): the insert is refused when the
\* post is absent.
CommentForeignKeyHolds(d, postId) == postId \in DOMAIN d.posts

\* INSERT INTO comments (post_id, user_id, content).
InsertComment(d, postId, user, content) ==
  IF ~CommentForeignKeyHolds(d, postId) THEN [ok |-> FALSE, db |-> d, id |-> 0]
  ELSE [ok |-> TRUE,
        db |-> [d EXCEPT !.comments = d.comments @@ (d.nextCommentId :>
                           [post_id |-> postId, user_id |-> user,
                            content |-> content, likes_count |-> 0]),
                         !.nextCommentId = d.nextCommentId + 1],
        id |-> d.nextCommentId]

\* The table without its unique key.
UniquePostLikeMissing(d, postId, user) == TRUE

\* UNIQUE KEY unique_post_like (post_id, user_id).
UniquePostLike(d, postId, user) == RowCount(d.post_likes, postId, user) = 0

\* INSERT INTO post_likes (post_id, user_id): refused by the foreign key on
\* posts or by the unique key.
InsertPostLike(d, postId, user) ==
  IF postId \notin DOMAIN d.posts \/ ~UniquePostLike(d, postId, user)
  THEN [ok |-> FALSE, db |-> d]
  ELSE [ok |-> TRUE,
        db |-> [d EXCEPT !.post_likes = @ (+) SetToBag({<<postId, user>>})]]

\* DELETE FROM post_likes WHERE post_id = ? AND user_id = ?
DeletePostLike(d, postId, user) ==
  [d EXCEPT !.post_likes = Restrict(@, DOMAIN @ \ {<<postId, user>>})]

\* An unlike that forgets the counter.
UpdatePostLikesNoDecrement(d, postId, delta) ==
  IF postId \in DOMAIN d.posts /\ delta > 0
  THEN [d EXCEPT !.posts[postId].likes_count = @ + delta]
  ELSE d

\* UPDATE posts SET likes_count = likes_count + delta WHERE id = ?
UpdatePostLikes(d, postId, delta) ==
  IF postId \in DOMAIN d.posts
  THEN [d EXCEPT !.posts[postId].likes_count = @ + delta]
  ELSE d

\* UNIQUE KEY unique_comment_like (comment_id, user_id).
UniqueCommentLike(d, commentId, user) == RowCount(d.comment_likes, commentId, user) = 0

\* INSERT INTO comment_likes (comment_id, user_id).
InsertCommentLike(d, commentId, user) ==
  IF commentId \notin DOMAIN d.comments \/ ~UniqueCommentLike(d, commentId, user)
  THEN [ok |-> FALSE, db |-> d]
  ELSE [ok |-> TRUE,
        db |-> [d EXCEPT !.comment_likes = @ (+) SetToBag({<<commentId, user>>})]]

\* DELETE FROM comment_likes WHERE comment_id = ? AND user_id = ?
DeleteCommentLike(d, commentId, user) ==
  [d EXCEPT !.comment_likes = Restrict(@, DOMAIN @ \ {<<commentId, user>>})]

\* UPDATE comments SET likes_count = likes_count + delta WHERE id = ?
UpdateCommentLikes(d, commentId, delta) ==
  IF commentId \in DOMAIN d.comments
  THEN [d EXCEPT !.comments[commentId].likes_count = @ + delta]
  ELSE d

\* UPDATE posts SET comments_count = comments_count + delta WHERE id = ?
UpdateCommentsCount(d, postId, delta) ==
  IF postId \in DOMAIN d.posts
  THEN [d EXCEPT !.posts[postId].comments_count = @ + delta]
  ELSE d

\* The comments an ON DELETE CASCADE removes together with post postId.
CascadedComments(d, postId) == {c \in DOMAIN d.comments : d.comments[c].post_id = postId}

\* The delete without the cascade of post_likes.post_id.
DeletePostRowKeepingLikes(d, postId) ==
  LET gone == CascadedComments(d, postId) IN
  [d EXCEPT !.posts = Restrict(@, DOMAIN @ \ {postId}),
            !.comments = Restrict(@, DOMAIN @ \ gone),
            !.comment_likes = RowsOff(@, gone)]

\* DELETE FROM posts WHERE id = ?  with the cascades of comments.post_id,
\* post_likes.post_id and comment_likes.comment_id.
DeletePostRow(d, postId) ==
  LET gone == CascadedComments(d, postId) IN
  [d EXCEPT !.posts = Restrict(@, DOMAIN @ \ {postId}),
            !.comments = Restrict(@, DOMAIN @ \ gone),
            !.post_likes = RowsOff(@, {postId}),
            !.comment_likes = RowsOff(@, gone)]

\* DELETE FROM comments WHERE id = ?  with the cascade of comment_likes.
DeleteCommentRow(d, commentId) ==
  [d EXCEPT !.comments = Restrict(@, DOMAIN @ \ {commentId}),
            !.comment_likes = RowsOff(@, {commentId})]

\* --------------------------------------------------- requests and responses
\* A request as the router sees it after authentication: the route (kind), the
\* :id or :postId parameter, req.user.id (0 when optionalAuth found no user)
\* and the body's content.
Req(kind, id, user, content) ==
  [kind |-> kind, id |-> id, user |-> user, content |-> content]

NoReq == Req("none", 0, 0, <<>>)

\* A response: the status, the message or error text, likes_count when the
\* body has one (a sequence of length 0 or 1) and the posts of a feed read.
Resp(status, message, count, feed) ==
  [status |-> status, message |-> message, likes_count |-> count, posts |-> feed]

NoResp == Resp(0, "", <<>>, <<>>)

\* The catch block of every handler.
InternalError == Resp(500, "Internal server error", <<>>, <<>>)

\* A handler in flight: its request, the await it is suspended at, the local
\* it carries across awaits and the response under construction.
Task(req, pc, loc, resp) == [req |-> req, pc |-> pc, loc |-> loc, resp |-> resp]

IdleTask == Task(NoReq, "idle", 0, NoResp)

Goto(t, pc, loc) == [t EXCEPT !.pc = pc, !.loc = loc]

Finish(t, resp) == [t EXCEPT !.pc = "done", !.resp = resp]

Out(d, t) == [db |-> d, t |-> t]

\* ------------------------------------------------------------- handlers
\* Each handler is a function from the tables and the suspended task to the
\* tables and the task after the statement it was waiting for has run.

\* router.post('/:id/like') of routes/posts.js.
LikePostStep(d, t) ==
  LET postId == t.req.id
      userId == t.req.user
  IN CASE t.pc = "select" ->
            Out(d, Goto(t, "mutate", IF RowCount(d.post_likes, postId, userId) > 0 THEN 1 ELSE 0))
       [] t.pc = "mutate" /\ t.loc = 1 ->
            Out(DeletePostLike(d, postId, userId), Goto(t, "update", 1))
       [] t.pc = "mutate" /\ t.loc = 0 ->
            LET ins == InsertPostLike(d, postId, userId)
            IN IF ins.ok THEN Out(ins.db, Goto(t, "update", 0))
                         ELSE Out(d, Finish(t, InternalError))
       [] t.pc = "update" ->
            Out(UpdatePostLikes(d, postId, IF t.loc = 1 THEN -1 ELSE 1), Goto(t, "reread", t.loc))
       [] t.pc = "reread" ->
            IF postId \in DOMAIN d.posts
            THEN Out(d, Finish(t, Resp(200, IF t.loc = 1 THEN "Post unliked" ELSE "Post liked",
                                       <<d.posts[postId].likes_count>>, <<>>)))
            ELSE Out(d, Finish(t, InternalError))

\* router.post('/:id/like') of routes/comments.js.
LikeCommentStep(d, t) ==
  LET commentId == t.req.id
      userId == t.req.user
  IN CASE t.pc = "select" ->
            Out(d, Goto(t, "mutate", IF RowCount(d.comment_likes, commentId, userId) > 0 THEN 1 ELSE 0))
       [] t.pc = "mutate" /\ t.loc = 1 ->
            Out(DeleteCommentLike(d, commentId, userId), Goto(t, "update", 1))
       [] t.pc = "mutate" /\ t.loc = 0 ->
            LET ins == InsertCommentLike(d, commentId, userId)
            IN IF ins.ok THEN Out(ins.db, Goto(t, "update", 0))
                         ELSE Out(d, Finish(t, InternalError))
       [] t.pc = "update" ->
            Out(UpdateCommentLikes(d, commentId, IF t.loc = 1 THEN -1 ELSE 1), Goto(t, "reread", t.loc))
       [] t.pc = "reread" ->
            IF commentId \in DOMAIN d.comments
            THEN Out(d, Finish(t, Resp(200, IF t.loc = 1 THEN "Comment unliked" ELSE "Comment liked",
                                       <<d.comments[commentId].likes_count>>, <<>>)))
            ELSE Out(d, Finish(t, InternalError))

\* router.post('/') of routes/posts.js, after the content check.
CreatePostStep(d, t) ==
  CASE t.pc = "insert" ->
         Out(InsertPost(d, t.req.user, Trim(t.req.content)), Goto(t, "reread", d.nextPostId))
    [] t.pc = "reread" ->
         Out(d, Finish(t, Resp(201, "Post created successfully", <<>>, <<>>)))

\* router.post('/post/:postId') of routes/comments.js, after the content check.
AddCommentStep(d, t) ==
  LET postId == t.req.id IN
  CASE t.pc = "check" ->
         IF postId \in DOMAIN d.posts
         THEN Out(d, Goto(t, "insert", 0))
         ELSE Out(d, Finish(t, Resp(404, "Post not found", <<>>, <<>>)))
    [] t.pc = "insert" ->
         LET ins == InsertComment(d, postId, t.req.user, Trim(t.req.content))
         IN IF ins.ok THEN Out(ins.db, Goto(t, "update", ins.id))
                      ELSE Out(d, Finish(t, InternalError))
    [] t.pc = "update" ->
         Out(UpdateCommentsCount(d, postId, 1), Goto(t, "reread", t.loc))
    [] t.pc = "reread" ->
         Out(d, Finish(t, Resp(201, "Comment created successfully", <<>>, <<>>)))

\* router.delete('/:id') of routes/posts.js.
DeletePostStep(d, t) ==
  LET postId == t.req.id IN
  CASE t.pc = "check" ->
         IF postId \in DOMAIN d.posts /\ d.posts[postId].user_id = t.req.user
         THEN Out(d, Goto(t, "delete", 0))
         ELSE Out(d, Finish(t, Resp(404, "Post not found or not authorized", <<>>, <<>>)))
    [] t.pc = "delete" ->
         Out(DeletePostRow(d, postId), Finish(t, Resp(200, "Post deleted successfully", <<>>, <<>>)))

\* router.delete('/:id') of routes/comments.js.
DeleteCommentStep(d, t) ==
  LET commentId == t.req.id IN
  CASE t.pc = "check" ->
         IF commentId \in DOMAIN d.comments /\ d.comments[commentId].user_id = t.req.user
         THEN Out(d, Goto(t, "delete", d.comments[commentId].post_id))
         ELSE Out(d, Finish(t, Resp(404, "Comment not found or not authorized", <<>>, <<>>)))
    [] t.pc = "delete" ->
         Out(DeleteCommentRow(d, commentId), Goto(t, "update", t.loc))
    [] t.pc = "update" ->
         Out(UpdateCommentsCount(d, t.loc, -1),
             Finish(t, Resp(200, "Comment deleted successfully", <<>>, <<>>)))

\* One row of a feed read.
FeedRow(d, postId, liked, attached) ==
  [id |-> postId, likes_count |-> d.posts[postId].likes_count,
   comments_count |-> d.posts[postId].comments_count,
   is_liked |-> liked, comments |-> attached]

\* posts p LEFT JOIN post_likes pl ON p.id = pl.post_id AND pl.user_id = ?
\* ORDER BY p.created_at DESC: one row per matching like row, or one row with
\* is_liked = 0 when there is none.
PostsJoinLikes(d, viewer) ==
  Flatten([i \in 1..Cardinality(DOMAIN d.posts) |->
             LET postId == SeqDesc(DOMAIN d.posts)[i]
                 n == RowCount(d.post_likes, postId, viewer)
             IN IF n = 0 THEN <<FeedRow(d, postId, 0, <<>>)>>
                         ELSE Repeat(FeedRow(d, postId, 1, <<>>), n)])

\* router.get('/') of routes/posts.js.
GetPostsStep(d, t) ==
  CASE t.pc = "select" ->
         Out(d, Finish(t, Resp(200, "", <<>>, PostsJoinLikes(d, t.req.user))))

\* comments c JOIN users u WHERE c.post_id = ? ORDER BY c.created_at ASC.
CommentsOf(d, postId) == SeqAsc({c \in DOMAIN d.comments : d.comments[c].post_id = postId})

\* app.get('/api/posts') of server.js: the posts, then one comments query per
\* post; t.loc is the index of the post whose comments are awaited.
GetFeedStep(d, t) ==
  CASE t.pc = "posts" ->
         LET rows == [i \in 1..Cardinality(DOMAIN d.posts) |->
                        [id |-> SeqDesc(DOMAIN d.posts)[i],
                         likes_count |-> d.posts[SeqDesc(DOMAIN d.posts)[i]].likes_count,
                         comments_count |-> d.posts[SeqDesc(DOMAIN d.posts)[i]].comments_count,
                         is_liked |-> 0, comments |-> <<>>]]
             r == Resp(200, "", <<>>, rows)
         IN IF rows = <<>> THEN Out(d, Finish(t, r))
                           ELSE Out(d, [t EXCEPT !.pc = "comments", !.loc = 1, !.resp = r])
    [] t.pc = "comments" ->
         LET r == [t.resp EXCEPT !.posts[t.loc].comments = CommentsOf(d, t.resp.posts[t.loc].id)]
         IN IF t.loc = Len(t.resp.posts) THEN Out(d, Finish(t, r))
                                        ELSE Out(d, [t EXCEPT !.loc = t.loc + 1, !.resp = r])

\* The task a request starts as: the synchronous prefix of its handler, up to
\* the first await.
NewTask(q) ==
  CASE q.kind = "likePost" -> Task(q, "select", 0, NoResp)
    [] q.kind = "likeComment" -> Task(q, "select", 0, NoResp)
    [] q.kind = "createPost" ->
         IF ContentMissing(q.content)
         THEN Task(q, "done", 0, Resp(400, "Post content is required", <<>>, <<>>))
         ELSE Task(q, "insert", 0, NoResp)
    [] q.kind = "addComment" ->
         IF ContentMissing(q.content)
         THEN Task(q, "done", 0, Resp(400, "Comment content is required", <<>>, <<>>))
         ELSE Task(q, "check", 0, NoResp)
    [] q.kind = "deletePost" -> Task(q, "check", 0, NoResp)
    [] q.kind = "deleteComment" -> Task(q, "check", 0, NoResp)
    [] q.kind = "getPosts" -> Task(q, "select", 0, NoResp)
    [] q.kind = "getFeed" -> Task(q, "posts", 0, NoResp)

\* The next statement of whichever handler the task belongs to.
HandlerStep(d, t) ==
  CASE t.req.kind = "likePost" -> LikePostStep(d, t)
    [] t.req.kind = "likeComment" -> LikeCommentStep(d, t)
    [] t.req.kind = "createPost" -> CreatePostStep(d, t)
    [] t.req.kind = "addComment" -> AddCommentStep(d, t)
    [] t.req.kind = "deletePost" -> DeletePostStep(d, t)
    [] t.req.kind = "deleteComment" -> DeleteCommentStep(d, t)
    [] t.req.kind = "getPosts" -> GetPostsStep(d, t)
    [] t.req.kind = "getFeed" -> GetFeedStep(d, t)

\* A handler run from its first statement to its response with no other
\* request in between.
RECURSIVE RunHandler(_, _)
RunHandler(d, t) ==
  IF t.pc = "done" THEN Out(d, t)
  ELSE LET s == HandlerStep(d, t) IN RunHandler(s.db, s.t)

\* ======================================================================
\* test-server.js over storage.js
\* ======================================================================

\* ------------------------------------------------------------ the store
\* registered-users.json, posts.json and comments.json, or the collections
\* of the same names: the users by email, the posts and the comments in file
\* order or in insertion order.  A user is the record of its fields: id from
\* registration on, banned once a ban request has set it.
EmptyStore == [users |-> NoRows, posts |-> <<>>, comments |-> <<>>]

\* user_email || 'anonymous@example.com'
EmailOr(email) == IF email = "" THEN "anonymous@example.com" ELSE email

\* The newPost and newComment objects: id is Date.now() and created_at the
\* same instant.
NewPost(q, now) ==
  [id |-> now, user_email |-> EmailOr(q.email), content |-> q.content,
   attachments |-> q.attachments, created_at |-> now]

NewComment(q, now) ==
  [id |-> now, post_id |-> q.id, user_email |-> EmailOr(q.email),
   content |-> q.content, attachments |-> q.attachments, created_at |-> now]

\* The sample posts of the feed handler, each with a new Date() of its own.
SamplePosts(dates) ==
  <<[id |-> 1, user_email |-> "kael@gmail.com", content |-> <<"a">>,
     attachments |-> <<>>, created_at |-> dates[1]],
    [id |-> 2, user_email |-> "james@gmail.com", content |-> <<"a">>,
     attachments |-> <<>>, created_at |-> dates[2]],
    [id |-> 3, user_email |-> "jameslutherapaap14@gmail.com", content |-> <<"a">>,
     attachments |-> <<>>, created_at |-> dates[3]]>>

\* sort({ created_at: -1 }): newest first, documents of one instant in
\* insertion order.
RECURSIVE InsertByCreatedAt(_, _)
InsertByCreatedAt(sorted, doc) ==
  IF sorted = <<>> \/ sorted[Len(sorted)].created_at >= doc.created_at
  THEN Append(sorted, doc)
  ELSE Append(InsertByCreatedAt(SubSeq(sorted, 1, Len(sorted) - 1), doc),
              sorted[Len(sorted)])

RECURSIVE SortByCreatedAt(_)
SortByCreatedAt(docs) ==
  IF docs = <<>> THEN <<>>
  ELSE InsertByCreatedAt(SortByCreatedAt(SubSeq(docs, 1, Len(docs) - 1)), docs[Len(docs)])

loadUsers(st) == st.users

\* bulk.find({ email }).upsert().updateOne({ $set: user }) for every entry of
\* the mapping: the fields given replace the stored ones, the others stay.
bulkUpsert(held, users) ==
  [email \in DOMAIN held \cup DOMAIN users |->
     IF email \notin DOMAIN users THEN held[email]
     ELSE IF email \notin DOMAIN held THEN users[email]
     ELSE users[email] @@ held[email]]

loadPosts(st, m) == IF m = "mongo" THEN SortByCreatedAt(st.posts) ELSE st.posts

loadComments(st) == st.comments

\* insertMany into a collection with a unique index on id: documents go in
\* one by one and the first duplicate key ends the call with an error.
RECURSIVE insertMany(_, _)
insertMany(held, docs) ==
  IF docs = <<>> THEN [ok |-> TRUE, docs |-> held]
  ELSE IF \E i \in 1..Len(held) : held[i].id = Head(docs).id
       THEN [ok |-> FALSE, docs |-> held]
       ELSE insertMany(Append(held, Head(docs)), Tail(docs))

\* ------------------------------------------------- the backend selection
\* The selection of storage.js: pc is where the startup function stands, n
\* the collection (users, posts, comments) it is dealing with.
Boot(pc, uri, ready, held) ==
  [pc |-> pc, n |-> 1, uri |-> uri, ready |-> ready, threw |-> "", docs |-> <<>>,
   held |-> held]

\* The server over the connection pool does not load storage.js.
NoBoot == Boot("none", "", FALSE, EmptyStore)

\* The selection over, with nothing in the backend it did not choose.
Selected(m) ==
  Boot("returned", IF m = "mongo" THEN "mongodb://db" ELSE "", TRUE, EmptyStore)

\* process.env.MONGODB_URI: unset, one the client's constructor rejects and
\* one it accepts.
Uris == {"", "mongodb:", "mongodb://db"}

\* new MongoClient(uri, ...) parses the connection string and throws on one
\* that is malformed.
WellFormed(uri) == uri = "mongodb://db"

\* A selection that stays with MongoDB once the connection is made.
ModeOnErrorOnceConnected(threw) == IF threw \in {"MongoClient", "connect"} THEN "file" ELSE "mongo"

\* catch (e) { state.mode = 'file'; }
ModeOnError(threw) == "file"

Collections == <<"users", "posts", "comments">>

\* estimatedDocumentCount() of a collection, and Object.values(...).length or
\* posts.length of what a file holds.
Size(held, coll) ==
  IF coll = "users" THEN Cardinality(DOMAIN held.users) ELSE Len(held[coll])

\* insertMany(docs, { ordered: false }) under the unique index: every
\* document whose key is not yet held goes in.
RECURSIVE insertUnordered(_, _)
insertUnordered(held, docs) ==
  IF docs = <<>> THEN held
  ELSE insertUnordered(IF \E i \in 1..Len(held) : held[i].id = Head(docs).id
                       THEN held ELSE Append(held, Head(docs)),
                       Tail(docs))

\* The collections after the insertMany of the seeding of collection coll.
Seeded(held, coll, docs) ==
  [held EXCEPT ![coll] = IF coll = "users" THEN @ @@ docs ELSE insertUnordered(@, docs)]

\* ------------------------------------------------------------- requests
\* A request to test-server.js: the route, its :postId or :commentId, and the
\* body's user_email (or email; "" when absent), content, attachments and
\* isAdmin.
ApiReq(kind, id, email, content, attachments, isAdmin) ==
  [kind |-> kind, id |-> id, email |-> email, content |-> content,
   attachments |-> attachments, isAdmin |-> isAdmin]

\* What a save in progress carries: the collection, the documents to write,
\* the response to send once written, or the await to go on to.
Saving(coll, docs, resp, next) ==
  [coll |-> coll, docs |-> docs, resp |-> resp, next |-> next]

\* The first await of savePosts or saveComments.
SavePc(m) == IF m = "mongo" THEN "deleteMany" ELSE "writeFile"

\* A handler's step: the store and the task after it, and the saves it
\* started without awaiting them.
ApiOut(st, t, started) == [st |-> st, t |-> t, started |-> started]

\* A request to ban or unban: the :userEmail and the body's banned.
BanReq(email, banned) ==
  ApiReq("POST /api/admin/ban/:userEmail", 0, email, <<>>, <<>>, FALSE) @@ [banned |-> banned]

\* savePosts and saveComments from their first await on: writeFileSync, or
\* deleteMany({}) and then insertMany if there is anything to insert.
SaveStep(st, t) ==
  LET l == t.loc
      after == IF l.next = "done" THEN Finish(t, l.resp) ELSE Goto(t, l.next, l)
  IN CASE t.pc = "writeFile" ->
            ApiOut([st EXCEPT ![l.coll] = l.docs], after, <<>>)
       [] t.pc = "deleteMany" ->
            ApiOut([st EXCEPT ![l.coll] = <<>>],
                   IF l.docs = <<>> THEN after ELSE Goto(t, "insertMany", l), <<>>)
       [] t.pc = "insertMany" ->
            LET r == insertMany(st[l.coll], l.docs) IN
            ApiOut([st EXCEPT ![l.coll] = r.docs],
                   IF r.ok THEN after ELSE Finish(t, InternalError), <<>>)
       [] t.pc = "bulkExecute" ->
            ApiOut([st EXCEPT !.users = bulkUpsert(st.users, l.docs)], after, <<>>)

\* A save nobody awaits.
Unawaited(m, coll, docs) ==
  Task(NoReq, SavePc(m), Saving(coll, docs, NoResp, "done"), NoResp)

\* ------------------------------------------------------------- handlers
\* saveUsers called and not awaited: the file is written within the call,
\* the bulk operation runs in its own time.
SaveUsersUnawaited(st, m, users) ==
  IF m = "mongo"
  THEN [st |-> st,
        started |-> <<Task(NoReq, "bulkExecute", Saving("users", users, NoResp, "done"), NoResp)>>]
  ELSE [st |-> [st EXCEPT !.users = users], started |-> <<>>]

\* The ban check of the two creating handlers: user && user.banned.
Banned(st, email) ==
  /\ email \in DOMAIN loadUsers(st)
  /\ "banned" \in DOMAIN loadUsers(st)[email]
  /\ loadUsers(st)[email].banned

\* app.post('/api/register') of test-server.js, after the check of the body.
ApiRegisterStep(st, m, dates, t) ==
  CASE t.pc = "loadUsers" ->
         LET users == loadUsers(st) IN
         IF t.req.email \in DOMAIN users
         THEN ApiOut(st, Finish(t, Resp(409, "User already exists", <<>>, <<>>)), <<>>)
         ELSE LET saved == SaveUsersUnawaited(st, m, users @@ (t.req.email :> [id |-> dates[1]]))
              IN ApiOut(saved.st, Finish(t, Resp(201, "User created successfully", <<>>, <<>>)),
                        saved.started)

\* app.post('/api/admin/ban/:userEmail') of test-server.js.
ApiBanStep(st, m, dates, t) ==
  CASE t.pc = "loadUsers" ->
         LET users == loadUsers(st) IN
         IF t.req.email \in DOMAIN users
         THEN LET saved == SaveUsersUnawaited(st, m,
                             [users EXCEPT ![t.req.email] = [banned |-> t.req.banned] @@ @])
              IN ApiOut(saved.st,
                        Finish(t, Resp(200, IF t.req.banned THEN "User banned successfully"
                                                           ELSE "User unbanned successfully",
                                       <<>>, <<>>)),
                        saved.started)
         ELSE ApiOut(st, Finish(t, Resp(404, "User not found", <<>>, <<>>)), <<>>)

\* !content && (!attachments || attachments.length === 0)
NothingToPost(q) == q.content = <<>> /\ q.attachments = <<>>

\* app.get('/api/posts') of test-server.js.
ApiGetPostsStep(st, m, dates, t) ==
  CASE t.pc = "loadPosts" ->
         LET posts == loadPosts(st, m) IN
         IF posts = <<>>
         THEN ApiOut(st, Goto(t, SavePc(m),
                              Saving("posts", SamplePosts(dates), NoResp, "loadComments")), <<>>)
         ELSE ApiOut(st, Goto(t, "loadComments", Saving("posts", posts, NoResp, "done")), <<>>)
    [] t.pc = "loadComments" ->
         LET posts == t.loc.docs
             rows == [i \in 1..Len(posts) |->
                        [id |-> posts[i].id, user_email |-> posts[i].user_email,
                         content |-> posts[i].content,
                         attachments |-> posts[i].attachments,
                         created_at |-> posts[i].created_at,
                         comments |-> SelectSeq(loadComments(st),
                                                LAMBDA c : c.post_id = posts[i].id)]]
         IN ApiOut(st, Finish(t, Resp(200, "", <<>>, rows)), <<>>)

\* A handler that saves the new post alone.
ApiCreatePostStepNoUnshift(st, m, dates, t) ==
  CASE t.pc = "loadUsers" ->
         IF Banned(st, t.req.email)
         THEN ApiOut(st, Finish(t, Resp(403, "Your account has been banned. You cannot create posts.",
                                        <<>>, <<>>)), <<>>)
         ELSE ApiOut(st, Goto(t, "loadPosts", NewPost(t.req, dates[1])), <<>>)
    [] t.pc = "loadPosts" ->
         ApiOut(st, Goto(t, SavePc(m),
                         Saving("posts", <<t.loc>>,
                                Resp(200, "Post created successfully", <<>>, <<t.loc>>),
                                "done")), <<>>)

\* app.post('/api/posts') of test-server.js.
ApiCreatePostStep(st, m, dates, t) ==
  CASE t.pc = "loadUsers" ->
         IF Banned(st, t.req.email)
         THEN ApiOut(st, Finish(t, Resp(403, "Your account has been banned. You cannot create posts.",
                                        <<>>, <<>>)), <<>>)
         ELSE ApiOut(st, Goto(t, "loadPosts", NewPost(t.req, dates[1])), <<>>)
    [] t.pc = "loadPosts" ->
         ApiOut(st, Goto(t, SavePc(m),
                         Saving("posts", <<t.loc>> \o loadPosts(st, m),
                                Resp(200, "Post created successfully", <<>>, <<t.loc>>),
                                "done")), <<>>)

\* app.post('/api/comments/post/:postId') of test-server.js.
ApiAddCommentStep(st, m, dates, t) ==
  CASE t.pc = "loadUsers" ->
         IF Banned(st, t.req.email)
         THEN ApiOut(st, Finish(t, Resp(403, "Your account has been banned. You cannot create comments.",
                                        <<>>, <<>>)), <<>>)
         ELSE ApiOut(st, Goto(t, "loadComments", NewComment(t.req, dates[1])), <<>>)
    [] t.pc = "loadComments" ->
         ApiOut(st, Goto(t, SavePc(m),
                         Saving("comments", Append(loadComments(st), t.loc),
                                Resp(200, "Comment added successfully", <<>>, <<t.loc>>),
                                "done")), <<>>)

\* app.delete('/api/posts/:postId') of test-server.js: savePosts is called
\* and not awaited, so the file is written at once and the collection in its
\* own time.
ApiDeletePostStep(st, m, dates, t) ==
  CASE t.pc = "loadPosts" ->
         LET updatedPosts == SelectSeq(loadPosts(st, m), LAMBDA post : post.id # t.req.id) IN
         IF m = "mongo"
         THEN ApiOut(st, Goto(t, "loadComments", 0), <<Unawaited(m, "posts", updatedPosts)>>)
         ELSE ApiOut([st EXCEPT !.posts = updatedPosts], Goto(t, "loadComments", 0), <<>>)
    [] t.pc = "loadComments" ->
         LET updatedComments ==
               SelectSeq(loadComments(st), LAMBDA comment : comment.post_id # t.req.id)
         IN ApiOut(st, Goto(t, SavePc(m),
                            Saving("comments", updatedComments,
                                   Resp(200, "Post deleted successfully", <<>>, <<>>),
                                   "done")), <<>>)

\* app.delete('/api/comments/:commentId') of test-server.js.
ApiDeleteCommentStep(st, m, dates, t) ==
  CASE t.pc = "loadComments" ->
         LET comments == loadComments(st)
             found == SelectSeq(comments, LAMBDA c : c.id = t.req.id)
             isOwner == t.req.email # "" /\ Head(found).user_email = t.req.email
             allow == isOwner \/ t.req.isAdmin \/ t.req.email = "admin@startup.com"
         IN IF found = <<>>
            THEN ApiOut(st, Finish(t, Resp(404, "Comment not found", <<>>, <<>>)), <<>>)
            ELSE IF ~allow
            THEN ApiOut(st, Finish(t, Resp(403, "Not allowed to delete this comment",
                                           <<>>, <<>>)), <<>>)
            ELSE ApiOut(st, Goto(t, SavePc(m),
                                 Saving("comments",
                                        SelectSeq(comments, LAMBDA c : c.id # t.req.id),
                                        Resp(200, "Comment deleted successfully", <<>>, <<>>),
                                        "done")), <<>>)

\* The task a request to test-server.js starts as.
ApiNewTask(q, dates) ==
  CASE q.kind = "GET /api/posts" -> Task(q, "loadPosts", 0, NoResp)
    [] q.kind = "POST /api/posts" ->
         IF NothingToPost(q)
         THEN Task(q, "done", 0, Resp(400, "Post content or attachments required", <<>>, <<>>))
         ELSE IF q.email # "" THEN Task(q, "loadUsers", 0, NoResp)
         ELSE Task(q, "loadPosts", NewPost(q, dates[1]), NoResp)
    [] q.kind = "POST /api/comments/post/:postId" ->
         IF NothingToPost(q)
         THEN Task(q, "done", 0, Resp(400, "Comment content or attachments required", <<>>, <<>>))
         ELSE IF q.email # "" THEN Task(q, "loadUsers", 0, NoResp)
         ELSE Task(q, "loadComments", NewComment(q, dates[1]), NoResp)
    [] q.kind = "DELETE /api/posts/:postId" -> Task(q, "loadPosts", 0, NoResp)
    [] q.kind = "DELETE /api/comments/:commentId" -> Task(q, "loadComments", 0, NoResp)
    [] q.kind = "POST /api/register" -> Task(q, "loadUsers", 0, NoResp)
    [] q.kind = "POST /api/admin/ban/:userEmail" -> Task(q, "loadUsers", 0, NoResp)

SavePcs == {"writeFile", "deleteMany", "insertMany"}

\* The next await of whichever handler the task belongs to; dates are the
\* readings of the clock the handler takes before it is suspended again.
ApiStep(st, m, dates, t) ==
  CASE t.pc \in SavePcs -> SaveStep(st, t)
    [] t.pc \notin SavePcs /\ t.req.kind = "GET /api/posts" -> ApiGetPostsStep(st, m, dates, t)
    [] t.pc \notin SavePcs /\ t.req.kind = "POST /api/posts" -> ApiCreatePostStep(st, m, dates, t)
    [] t.pc \notin SavePcs /\ t.req.kind = "POST /api/comments/post/:postId" ->
         ApiAddCommentStep(st, m, dates, t)
    [] t.pc \notin SavePcs /\ t.req.kind = "DELETE /api/posts/:postId" ->
         ApiDeletePostStep(st, m, dates, t)
    [] t.pc \notin SavePcs /\ t.req.kind = "DELETE /api/comments/:commentId" ->
         ApiDeleteCommentStep(st, m, dates, t)
    [] t.pc \notin SavePcs /\ t.req.kind = "POST /api/register" ->
         ApiRegisterStep(st, m, dates, t)
    [] t.pc \notin SavePcs /\ t.req.kind = "POST /api/admin/ban/:userEmail" ->
         ApiBanStep(st, m, dates, t)

\* A handler run to its response within one turn of the event loop, as it
\* is when every storage call is a synchronous file call.
RECURSIVE RunApi(_, _, _, _)
RunApi(st, m, dates, t) ==
  IF t.pc = "done" THEN ApiOut(st, t, <<>>)
  ELSE LET s == ApiStep(st, m, dates, t) IN RunApi(s.st, m, dates, s.t)

\* Handlers started within one turn of the event loop, over the synchronous
\* file calls: each await hands the turn to the handler that has waited
\* longest, so the handlers take their awaits in rotation, ts[k] next, until
\* all have answered.  done lists them in the order of their answers.
RECURSIVE RunTurn(_, _, _, _, _, _)
RunTurn(st, m, dates, ts, k, done) ==
  IF \A i \in 1..Len(ts) : ts[i].pc = "done" THEN [st |-> st, done |-> done]
  ELSE LET next == (k % Len(ts)) + 1 IN
       IF ts[k].pc = "done" THEN RunTurn(st, m, dates, ts, next, done)
       ELSE LET s == ApiStep(st, m, dates, ts[k]) IN
            RunTurn(s.st, m, dates, [ts EXCEPT ![k] = s.t], next,
                    IF s.t.pc = "done" THEN Append(done, s.t) ELSE done)

\* --------------------------------------------------- calls that throw
\* What a storage call is to the backend: a read or a write.
CallAt(pc) == IF pc \in {"loadUsers", "loadPosts", "loadComments"} THEN "load" ELSE "save"

\* The handler resumed at t.pc goes on to call saveUsers or savePosts
\* without awaiting it.
SavesUnawaited(st, t) ==
  \/ /\ t.req.kind = "POST /api/register"
     /\ t.pc = "loadUsers"
     /\ t.req.email \notin DOMAIN loadUsers(st)
  \/ /\ t.req.kind = "POST /api/admin/ban/:userEmail"
     /\ t.pc = "loadUsers"
     /\ t.req.email \in DOMAIN loadUsers(st)
  \/ /\ t.req.kind = "DELETE /api/posts/:postId"
     /\ t.pc = "loadPosts"

\* catch (error) { res.status(500).json({ error: 'Internal server error' }) }
Catch(t) == Finish(t, InternalError)

\* The next await of a handler while the calls of the kinds in bad throw:
\* an awaited call that throws takes the handler to its catch block, the
\* rejection of a call that is not awaited reaches nobody and the handler
\* goes on.  threw lists the calls that threw.
ApiStepOrThrow(st, m, dates, t, bad) ==
  IF CallAt(t.pc) \in bad
  THEN [st |-> st, t |-> Catch(t), started |-> <<>>, threw |-> <<t.pc>>]
  ELSE IF "save" \in bad /\ SavesUnawaited(st, t)
  THEN [st |-> st, t |-> ApiStep(st, m, dates, t).t, started |-> <<>>,
        threw |-> <<"unawaited">>]
  ELSE ApiStep(st, m, dates, t) @@ [threw |-> <<>>]

\* A handler run to its response within one turn of the event loop while
\* the calls of the kinds in bad throw.
RECURSIVE RunApiOrThrow(_, _, _, _, _)
RunApiOrThrow(st, m, dates, t, bad) ==
  IF t.pc = "done" THEN [st |-> st, t |-> t, started |-> <<>>, threw |-> <<>>]
  ELSE LET s == ApiStepOrThrow(st, m, dates, t, bad)
           rest == RunApiOrThrow(s.st, m, dates, s.t, bad)
       IN [rest EXCEPT !.threw = s.threw \o @]

\* ------------------------------------------------------------------ state
VARIABLES
  mode,   \* state.mode of storage.js, or "mysql" where the server is the one
          \* over the connection pool, which does not load storage.js
  db,     \* the tables
  store,  \* the files or collections of storage.js
  jobs,   \* the saves running with no handler awaiting them
  clock,  \* what Date.now() returns
  tasks,  \* the handlers in flight, one per connection slot
  last,   \* the exchange the latest step completed, if it completed one
  hist,   \* what has happened so far, oldest first: a client session's
          \* exchanges, or the events of the process's runs
  boot    \* the backend selection of storage.js: where it stands, the
          \* MONGODB_URI it was given, state.ready, the call that threw, the
          \* documents of the insertMany it awaits, and the contents of the
          \* backend that state.mode does not name

vars == <<mode, db, store, jobs, clock, tasks, last, hist, boot>>

NoExchange == [req |-> NoReq, resp |-> NoResp]

Exchange(t) == [req |-> t.req, resp |-> t.resp]

Quiescent == \A r \in Slots : tasks[r].pc = "idle"

\* ----------------------------------------------------------------- inputs
\* Ids a request may name: every id handed out so far (live or deleted), and
\* id 1 before any was.
PostTargets(d) == 1..Max({1, d.nextPostId - 1})
CommentTargets(d) == 1..Max({1, d.nextCommentId - 1})

\* What the clients of one specification may do: create lim.posts posts,
\* lim.comments comments and lim.rows rows in all; users lim.likers like.
Limits(posts, comments, rows, likers) ==
  [posts |-> posts, comments |-> comments, rows |-> rows, likers |-> likers]

RoomForRow(d, lim) == (d.nextPostId - 1) + (d.nextCommentId - 1) < lim.rows
RoomForPost(d, lim) == d.nextPostId <= lim.posts /\ RoomForRow(d, lim)
RoomForComment(d, lim) == d.nextCommentId <= lim.comments /\ RoomForRow(d, lim)

\* The requests clients may send.  User 1 writes the posts and user 2 the
\* comments; both try to delete.
Requests(d, lim) ==
       {Req("likePost", p, u, <<>>) : p \in PostTargets(d), u \in lim.likers}
  \cup {Req("likeComment", c, u, <<>>) : c \in CommentTargets(d), u \in lim.likers}
  \cup {q \in {Req("createPost", 0, 1, c) : c \in Contents} :
          ContentMissing(q.content) \/ RoomForPost(d, lim)}
  \cup {q \in {Req("addComment", p, 2, c) : p \in PostTargets(d), c \in Contents} :
          ContentMissing(q.content) \/ RoomForComment(d, lim)}
  \cup {Req("deletePost", p, u, <<>>) : p \in PostTargets(d), u \in UserIds}
  \cup {Req("deleteComment", c, u, <<>>) : c \in CommentTargets(d), u \in UserIds}
  \cup {Req("getPosts", 0, u, <<>>) : u \in 0..1}
  \cup {Req("getFeed", 0, 0, <<>>)}

\* --------------------------------------------------------------- actions
Init ==
  /\ mode = "mysql"
  /\ db = EmptyDb
  /\ store = EmptyStore
  /\ jobs = <<>>
  /\ clock = StartClock
  /\ tasks = [r \in Slots |-> IdleTask]
  /\ last = NoExchange
  /\ hist = <<>>
  /\ boot = NoBoot

\* Slot r's handler has reached state s: either it is suspended again or it
\* has sent its response, which leaves the server, and the slot is free.
Settle(r, s) ==
  /\ db' = s.db
  /\ tasks' = [tasks EXCEPT ![r] = IF s.t.pc = "done" THEN IdleTask ELSE s.t]
  /\ UNCHANGED <<mode, store, jobs, clock, last, hist, boot>>

ConcLimits == Limits(MaxConcPosts, MaxConcComments, MaxConcPosts + MaxConcComments, {1})

\* The requests that write, which are the ones whose interleavings matter.
Writes(d) == {q \in Requests(d, ConcLimits) : q.kind \notin {"getPosts", "getFeed"}}

\* Racing requests can push a counter below zero without limit; clients stop
\* sending once one has sunk to the bound.
WithinSkew(d) ==
  /\ \A p \in DOMAIN d.posts :
        d.posts[p].likes_count > -MaxSkew /\ d.posts[p].comments_count > -MaxSkew
  /\ \A c \in DOMAIN d.comments : d.comments[c].likes_count > -MaxSkew

\* A request arrives on a free slot and its handler runs to its first await.
Receive(r) ==
  /\ tasks[r].pc = "idle"
  /\ WithinSkew(db)
  /\ \A o \in Slots : o < r => tasks[o].pc # "idle"
  /\ \E q \in Writes(db) : Settle(r, Out(db, NewTask(q)))

\* The statement slot r's handler awaits runs, and the handler continues to
\* its next await or to its response.
LikePost(r) ==
  /\ tasks[r].req.kind = "likePost"
  /\ Settle(r, LikePostStep(db, tasks[r]))

LikeComment(r) ==
  /\ tasks[r].req.kind = "likeComment"
  /\ Settle(r, LikeCommentStep(db, tasks[r]))

CreatePost(r) ==
  /\ tasks[r].req.kind = "createPost"
  /\ Settle(r, CreatePostStep(db, tasks[r]))

AddComment(r) ==
  /\ tasks[r].req.kind = "addComment"
  /\ Settle(r, AddCommentStep(db, tasks[r]))

DeletePost(r) ==
  /\ tasks[r].req.kind = "deletePost"
  /\ Settle(r, DeletePostStep(db, tasks[r]))

DeleteComment(r) ==
  /\ tasks[r].req.kind = "deleteComment"
  /\ Settle(r, DeleteCommentStep(db, tasks[r]))

Next ==
  \E r \in Slots :
    \/ Receive(r)
    \/ LikePost(r)
    \/ LikeComment(r)
    \/ CreatePost(r)
    \/ AddComment(r)
    \/ DeletePost(r)
    \/ DeleteComment(r)

\* Requests served concurrently, from freshly created tables.
Spec == Init /\ [][Next]_vars

\* A request served from arrival to response with no other request in flight.
Serve(q) ==
  LET s == RunHandler(db, NewTask(q)) IN
  /\ db' = s.db
  /\ mode = "mysql"
  /\ last' = Exchange(s.t)
  /\ UNCHANGED <<mode, store, jobs, clock, tasks, boot>>

\* The requests of one kind.
OfKind(kind, lim) == {q \in Requests(db, lim) : q.kind = kind}

SeqLimits == Limits(MaxPosts, MaxComments, MaxRows, UserIds)

SeqLikePost ==
  /\ mode = "mysql"
  /\ UNCHANGED hist
  /\ \E q \in OfKind("likePost", SeqLimits) : Serve(q)

SeqLikeComment ==
  /\ mode = "mysql"
  /\ UNCHANGED hist
  /\ \E q \in OfKind("likeComment", SeqLimits) : Serve(q)

SeqCreatePost ==
  /\ mode = "mysql"
  /\ UNCHANGED hist
  /\ \E q \in OfKind("createPost", SeqLimits) : Serve(q)

SeqAddComment ==
  /\ mode = "mysql"
  /\ UNCHANGED hist
  /\ \E q \in OfKind("addComment", SeqLimits) : Serve(q)

SeqDeletePost ==
  /\ mode = "mysql"
  /\ UNCHANGED hist
  /\ \E q \in OfKind("deletePost", SeqLimits) : Serve(q)

SeqDeleteComment ==
  /\ mode = "mysql"
  /\ UNCHANGED hist
  /\ \E q \in OfKind("deleteComment", SeqLimits) : Serve(q)

SeqGetPosts ==
  /\ mode = "mysql"
  /\ UNCHANGED hist
  /\ \E q \in OfKind("getPosts", SeqLimits) : Serve(q)

SeqGetFeed ==
  /\ mode = "mysql"
  /\ UNCHANGED hist
  /\ \E q \in OfKind("getFeed", SeqLimits) : Serve(q)


SeqNext ==
  \/ SeqLikePost
  \/ SeqLikeComment
  \/ SeqCreatePost
  \/ SeqAddComment
  \/ SeqDeletePost
  \/ SeqDeleteComment
  \/ SeqGetPosts
  \/ SeqGetFeed

\* Requests served one at a time, from freshly created tables.
SeqSpec == Init /\ [][SeqNext]_vars

\* A client session: one post and one comment on it, liked by both users,
\* every exchange kept.
SessionRequests(d) ==
  {q \in Requests(d, Limits(1, 1, 2, UserIds)) :
     /\ q.id <= 1
     /\ q.kind # "getFeed"
     /\ q.kind \in {"createPost", "addComment"} => ~ContentMissing(q.content)
     /\ q.kind = "deletePost" => q.user = 1
     /\ q.kind = "deleteComment" => FALSE
     /\ q.kind = "likeComment" => q.user = 1
     /\ q.kind = "getPosts" => q.user = 1}

SessionServe(kind) ==
  /\ Len(hist) < MaxSession
  /\ \E q \in SessionRequests(db) :
       /\ q.kind = kind
       /\ Serve(q)
       /\ hist' = Append(hist, Exchange(RunHandler(db, NewTask(q)).t))

SessionLikePost ==
  /\ db.nextPostId > 1
  /\ SessionServe("likePost")

SessionLikeComment ==
  /\ db.nextCommentId > 1
  /\ SessionServe("likeComment")

SessionCreatePost ==
  /\ db.nextPostId = 1
  /\ SessionServe("createPost")

SessionAddComment ==
  /\ db.nextCommentId = 1
  /\ SessionServe("addComment")

SessionDeletePost ==
  /\ db.nextPostId > 1
  /\ SessionServe("deletePost")

SessionGetPosts ==
  /\ TRUE
  /\ SessionServe("getPosts")

SessionNext ==
  \/ SessionLikePost
  \/ SessionLikeComment
  \/ SessionCreatePost
  \/ SessionAddComment
  \/ SessionDeletePost
  \/ SessionGetPosts

SessionSpec == Init /\ [][SessionNext]_vars

\* The tables as the schema script leaves them, sample rows included.
SampleInit ==
  /\ mode = "mysql"
  /\ db = SampleDb
  /\ store = EmptyStore
  /\ jobs = <<>>
  /\ clock = StartClock
  /\ tasks = [r \in Slots |-> IdleTask]
  /\ last = NoExchange
  /\ hist = <<>>
  /\ boot = NoBoot

SampleLimits ==
  Limits(SampleDb.nextPostId - 1 + MaxSampleNew, SampleDb.nextCommentId - 1 + MaxSampleNew,
         SampleDb.nextPostId + SampleDb.nextCommentId - 2 + MaxSampleNew, {})

SampleCreatePost ==
  /\ UNCHANGED hist
  /\ \E q \in OfKind("createPost", SampleLimits) : Serve(q)

SampleAddComment ==
  /\ UNCHANGED hist
  /\ \E q \in OfKind("addComment", SampleLimits) : Serve(q)

SampleDeletePost ==
  /\ UNCHANGED hist
  /\ \E q \in OfKind("deletePost", SampleLimits) : Serve(q)

SampleDeleteComment ==
  /\ UNCHANGED hist
  /\ \E q \in OfKind("deleteComment", SampleLimits) : Serve(q)

SampleGetFeed ==
  /\ UNCHANGED hist
  /\ \E q \in OfKind("getFeed", SampleLimits) : Serve(q)


SampleNext ==
  \/ SampleCreatePost
  \/ SampleAddComment
  \/ SampleDeletePost
  \/ SampleDeleteComment
  \/ SampleGetFeed

\* Requests served one at a time on the schema script's tables.
SampleSpec == SampleInit /\ [][SampleNext]_vars

\* ------------------------------------------- test-server.js: the actions
\* The bodies clients post: nothing, an attachment alone, white space and
\* content.
Bodies ==
  {[content |-> <<>>, attachments |-> <<>>],
   [content |-> <<>>, attachments |-> <<"f">>],
   [content |-> <<" ">>, attachments |-> <<>>],
   [content |-> <<"a">>, attachments |-> <<>>]}

\* The readings successive new Date() may give within one turn of the event
\* loop, from the clock's present value on.
Dates(c) ==
  {<<c, d2, d3>> : d2 \in c..Min({c + 1, StartClock + MaxTicks}),
                   d3 \in c..Min({c + 1, StartClock + MaxTicks})} \ {<<c, c + 1, c>>}

\* What is explored: on the files every body, MaxApiComments comments and a
\* millisecond that may pass within a turn; on MongoDB, where each
\* collection call is a step of its own, nothing or content, MaxMongoComments
\* comments and turns that stay within their millisecond.
ApiLimits ==
  IF mode = "mongo"
  THEN [comments |-> MaxMongoComments,
        bodies |-> {b \in Bodies : b.attachments = <<>> /\ b.content = Trim(b.content)},
        dates |-> {<<clock, clock, clock>>}]
  ELSE [comments |-> MaxApiComments, bodies |-> Bodies, dates |-> Dates(clock)]

\* The ids a request may name: the first sample post and every reading of
\* the clock so far.
ApiTargets == {1} \cup StartClock..clock

\* The documents that are not sample posts.
Created(docs) == Len(SelectSeq(docs, LAMBDA doc : doc.id >= StartClock))

\* The requests clients may send to test-server.js: posts come from
\* anonymous clients and comments from one that gives its email.
ApiRequests ==
       {ApiReq("GET /api/posts", 0, "", <<>>, <<>>, FALSE)}
  \cup {q \in {ApiReq("POST /api/posts", 0, "", b.content, b.attachments, FALSE) :
                 b \in ApiLimits.bodies} :
          NothingToPost(q) \/ Created(store.posts) < MaxApiPosts}
  \cup {q \in {ApiReq("POST /api/comments/post/:postId", p, "james@gmail.com",
                      b.content, b.attachments, FALSE) :
                 p \in ApiTargets, b \in ApiLimits.bodies} :
          NothingToPost(q) \/ Len(store.comments) < ApiLimits.comments}
  \cup {q \in {ApiReq("DELETE /api/posts/:postId", p, "", <<>>, <<>>, FALSE) :
                 p \in ApiTargets} :
          Len(jobs) < MaxJobs}
  \cup {ApiReq("DELETE /api/comments/:commentId", c, e, <<>>, <<>>, a) :
          c \in StartClock..clock, e \in {"", "kael@gmail.com", "james@gmail.com"},
          a \in BOOLEAN}

\* test-server.js starts with no file written, on the files or on MongoDB.
ApiInit ==
  /\ mode \in {"file", "mongo"}
  /\ db = EmptyDb
  /\ store = EmptyStore
  /\ jobs = <<>>
  /\ clock = StartClock
  /\ tasks = [r \in Slots |-> IdleTask]
  /\ last = NoExchange
  /\ hist = <<>>
  /\ boot = Selected(mode)

\* Slot r's handler has reached s, the clock standing at its last reading.
ApiReach(r, s, dates) ==
  /\ mode # "mysql"
  /\ store' = s.st
  /\ jobs' = jobs \o s.started
  /\ tasks' = [tasks EXCEPT ![r] = IF s.t.pc = "done" THEN IdleTask ELSE s.t]
  /\ last' = IF s.t.pc = "done" THEN Exchange(s.t) ELSE NoExchange
  /\ clock' = dates[3]
  /\ UNCHANGED <<mode, db, boot>>

ApiSettle(r, s, dates) ==
  /\ ApiReach(r, s, dates)
  /\ UNCHANGED hist

\* A request arrives.  On the files every storage call is synchronous and
\* the handler's awaits are over within the same turn of the event loop, so
\* it runs to its response; on MongoDB it runs to its first collection call.
ApiReceive(r) ==
  /\ mode # "mysql"
  /\ tasks[r].pc = "idle"
  /\ \A o \in Slots : o < r => tasks[o].pc # "idle"
  /\ Cardinality({o \in Slots : tasks[o].pc # "idle"}) < MaxInFlight
  /\ \E q \in ApiRequests : \E dates \in ApiLimits.dates :
       /\ dates[3] # clock => q.kind = "GET /api/posts"
       /\ ApiSettle(r, IF mode = "file"
                       THEN RunApi(store, mode, dates, ApiNewTask(q, dates))
                       ELSE ApiOut(store, ApiNewTask(q, dates), <<>>), dates)

\* The collection call slot r's handler awaits returns.
ApiGetPosts(r) ==
  /\ tasks[r].req.kind = "GET /api/posts"
  /\ \E dates \in ApiLimits.dates :
       ApiSettle(r, ApiStep(store, mode, dates, tasks[r]), dates)

ApiCreatePost(r) ==
  /\ tasks[r].req.kind = "POST /api/posts"
  /\ ApiSettle(r, ApiStep(store, mode, <<clock, clock, clock>>, tasks[r]), <<clock, clock, clock>>)

ApiAddComment(r) ==
  /\ tasks[r].req.kind = "POST /api/comments/post/:postId"
  /\ ApiSettle(r, ApiStep(store, mode, <<clock, clock, clock>>, tasks[r]), <<clock, clock, clock>>)

ApiDeletePost(r) ==
  /\ tasks[r].req.kind = "DELETE /api/posts/:postId"
  /\ ApiSettle(r, ApiStep(store, mode, <<clock, clock, clock>>, tasks[r]), <<clock, clock, clock>>)

ApiDeleteComment(r) ==
  /\ tasks[r].req.kind = "DELETE /api/comments/:commentId"
  /\ ApiSettle(r, ApiStep(store, mode, <<clock, clock, clock>>, tasks[r]), <<clock, clock, clock>>)

\* A collection call of a save nobody awaits returns.
BackgroundSave ==
  /\ mode # "mysql"
  /\ \E j \in 1..Len(jobs) :
       LET s == SaveStep(store, jobs[j]) IN
       /\ store' = s.st
       /\ jobs' = IF s.t.pc = "done"
                  THEN SubSeq(jobs, 1, j - 1) \o SubSeq(jobs, j + 1, Len(jobs))
                  ELSE [jobs EXCEPT ![j] = s.t]
  /\ last' = NoExchange
  /\ UNCHANGED <<mode, db, clock, tasks, hist, boot>>

\* A millisecond passes.
Tick ==
  /\ mode # "mysql"
  /\ clock < StartClock + MaxTicks
  /\ clock' = clock + 1
  /\ last' = NoExchange
  /\ UNCHANGED <<mode, db, store, jobs, tasks, hist, boot>>

ApiNext ==
  \/ Tick
  \/ BackgroundSave
  \/ \E r \in Slots :
       \/ ApiReceive(r)
       \/ ApiGetPosts(r)
       \/ ApiCreatePost(r)
       \/ ApiAddComment(r)
       \/ ApiDeletePost(r)
       \/ ApiDeleteComment(r)

\* test-server.js serving its clients.
ApiSpec == ApiInit /\ [][ApiNext]_vars

\* Either server, the one over the pool serving one request at a time.
AnyInit == Init \/ ApiInit

AnyNext == SeqNext \/ ApiNext

AnySpec == AnyInit /\ [][AnyNext]_vars

\* ---------------------------------------- test-server.js: requests that race
\* A feed read and the creation of a post.
RaceRequests ==
       {ApiReq("GET /api/posts", 0, "", <<>>, <<>>, FALSE)}
  \cup {q \in {ApiReq("POST /api/posts", 0, "", <<"a">>, <<>>, FALSE)} :
          Created(store.posts) < MaxApiPosts}

\* test-server.js on MongoDB with nothing stored.
RaceInit ==
  /\ mode = "mongo"
  /\ db = EmptyDb
  /\ store = EmptyStore
  /\ jobs = <<>>
  /\ clock = StartClock
  /\ tasks = [r \in Slots |-> IdleTask]
  /\ last = NoExchange
  /\ hist = <<>>
  /\ boot = Selected(mode)

\* A request arrives while another may be waiting for a collection call.
RaceReceive(r) ==
  /\ tasks[r].pc = "idle"
  /\ \A o \in Slots : o < r => tasks[o].pc # "idle"
  /\ Cardinality({o \in Slots : tasks[o].pc # "idle"}) < MaxRaceInFlight
  /\ \E q \in RaceRequests :
       ApiSettle(r, ApiOut(store, ApiNewTask(q, <<clock, clock, clock>>), <<>>),
                 <<clock, clock, clock>>)

RaceNext ==
  \/ Tick
  \/ \E r \in Slots :
       \/ RaceReceive(r)
       \/ ApiGetPosts(r)
       \/ ApiCreatePost(r)

\* test-server.js on MongoDB serving requests whose collection calls
\* interleave.
RaceSpec == RaceInit /\ [][RaceNext]_vars

\* ------------------------------------------ test-server.js: bans, in order
\* One account that registers, is banned or unbanned and comments.
BanRequests ==
       {ApiReq("POST /api/register", 0, "james@gmail.com", <<>>, <<>>, FALSE)}
  \cup {BanReq("james@gmail.com", banned) : banned \in BOOLEAN}
  \cup {q \in {ApiReq("POST /api/comments/post/:postId", 1, "james@gmail.com",
                       <<"a">>, <<>>, FALSE)} :
          Len(store.comments) < MaxBanComments}

\* Slot r's handler has reached s; an exchange that is over joins the
\* history.
BanSettle(r, s) ==
  /\ ApiReach(r, s, <<clock, clock, clock>>)
  /\ hist' = IF s.t.pc = "done" THEN Append(hist, Exchange(s.t)) ELSE hist

\* A request arrives once the one before it has been answered.
BanReceive(r) ==
  /\ mode # "mysql"
  /\ Quiescent
  /\ r = 1
  /\ Len(hist) < MaxBanSession
  /\ \E q \in BanRequests :
       BanSettle(r, IF mode = "file"
                    THEN RunApi(store, mode, <<clock, clock, clock>>,
                                ApiNewTask(q, <<clock, clock, clock>>))
                    ELSE ApiOut(store, ApiNewTask(q, <<clock, clock, clock>>), <<>>))

\* The collection call slot r's handler awaits returns.
BanStep(r) ==
  /\ tasks[r].pc # "idle"
  /\ BanSettle(r, ApiStep(store, mode, <<clock, clock, clock>>, tasks[r]))

BanNext ==
  \/ BackgroundSave
  \/ \E r \in Slots :
       \/ BanReceive(r)
       \/ BanStep(r)

\* test-server.js serving one client's requests one after another, every
\* exchange kept.
BanSpec == ApiInit /\ [][BanNext]_vars

\* --------------------------------------------------------------- events
\* The events of a run: a request answered, every Record Store call of its
\* handler made under state.mode = m; the seeding of a collection that held
\* into documents; the process started again.
Served(t, m) == [ev |-> "served", req |-> t.req, resp |-> t.resp, mode |-> m]

Restarted == [ev |-> "restarted"]

Events(ev) == SelectSeq(hist, LAMBDA e : e.ev = ev)

\* A request has reached its handler.
Received(q) == [ev |-> "received", req |-> q]

\* ------------------------------------------ storage.js: the two backends
\* The same calls made of the Record Store over the files (store) and over
\* MongoDB (boot.held), one call at a time and each awaited to its end.
\* A save run to its end.
RECURSIVE RunSave(_, _)
RunSave(st, t) ==
  IF t.pc = "done" THEN st
  ELSE LET s == SaveStep(st, t) IN RunSave(s.st, s.t)

\* saveUsers(users) awaited to its end.
RunSaveUsers(st, m, users) ==
  LET saved == SaveUsersUnawaited(st, m, users)
  IN IF saved.started = <<>> THEN saved.st ELSE RunSave(saved.st, saved.started[1])

\* What callers save: up to MaxSaved posts or comments out of two ids and
\* two instants, and the mappings of up to two users.
SavedDocs ==
  {[id |-> i, created_at |-> c] : i \in 1..MaxSaved, c \in 1..MaxSaved}

SavedSeqs == UNION {[1..n -> SavedDocs] : n \in 0..MaxSaved}

SavedUsers ==
  UNION {[S -> {[id |-> 1]}] : S \in SUBSET {"kael@gmail.com", "james@gmail.com"}}

\* The latest save of a collection and what it was given.
Saved(coll, docs) == [ev |-> "saved", coll |-> coll, docs |-> docs]

EquivInit ==
  /\ mode = "file"
  /\ db = EmptyDb
  /\ store = EmptyStore
  /\ jobs = <<>>
  /\ clock = StartClock
  /\ tasks = [r \in Slots |-> IdleTask]
  /\ last = NoExchange
  /\ hist = <<>>
  /\ boot = Selected("file")

EquivFrame(coll, docs) ==
  /\ hist' = Append(SelectSeq(hist, LAMBDA e : e.coll # coll), Saved(coll, docs))
  /\ UNCHANGED <<mode, db, jobs, clock, tasks, last>>

\* savePosts(docs) on either backend.
EquivSavePosts ==
  \E docs \in SavedSeqs :
    /\ store' = RunSave(store, Unawaited("file", "posts", docs))
    /\ boot' = [boot EXCEPT !.held = RunSave(@, Unawaited("mongo", "posts", docs))]
    /\ EquivFrame("posts", docs)

\* saveComments(docs) on either backend.
EquivSaveComments ==
  \E docs \in SavedSeqs :
    /\ store' = RunSave(store, Unawaited("file", "comments", docs))
    /\ boot' = [boot EXCEPT !.held = RunSave(@, Unawaited("mongo", "comments", docs))]
    /\ EquivFrame("comments", docs)

\* saveUsers(users) on either backend.
EquivSaveUsers ==
  \E users \in SavedUsers :
    /\ store' = RunSaveUsers(store, "file", users)
    /\ boot' = [boot EXCEPT !.held = RunSaveUsers(@, "mongo", users)]
    /\ EquivFrame("users", users)

EquivNext == EquivSavePosts \/ EquivSaveComments \/ EquivSaveUsers

EquivSpec == EquivInit /\ [][EquivNext]_vars

\* --------------------------- test-server.js: handlers that share a turn
\* Two clients that create posts and comment on the first sample post.
PipeRequests ==
  {ApiReq(kind, 1, email, <<"a">>, <<>>, FALSE) :
     kind \in {"POST /api/posts", "POST /api/comments/post/:postId"},
     email \in {"kael@gmail.com", "james@gmail.com"}}

\* Slot r's handler has reached s; a request answered joins the events.
PipeSettle(r, s, arrived) ==
  /\ ApiReach(r, s, <<clock, clock, clock>>)
  /\ hist' = hist \o arrived \o (IF s.t.pc = "done" THEN <<Served(s.t, mode)>> ELSE <<>>)

\* A request arrives, others perhaps waiting for a collection call.
PipeReceive(r) ==
  /\ tasks[r].pc = "idle"
  /\ \A o \in Slots : o < r => tasks[o].pc # "idle"
  /\ Cardinality({o \in Slots : tasks[o].pc # "idle"}) < MaxRaceInFlight
  /\ Len(Events("received")) < MaxPipeSession
  /\ \E q \in PipeRequests :
       PipeSettle(r, IF mode = "file"
                     THEN RunApi(store, mode, <<clock, clock, clock>>,
                                 ApiNewTask(q, <<clock, clock, clock>>))
                     ELSE ApiOut(store, ApiNewTask(q, <<clock, clock, clock>>), <<>>),
                  <<Received(q)>>)

\* Two requests reach their handlers within one turn of the event loop, as
\* requests sent down one connection without waiting for the answers do;
\* over the files both are answered before the turn is over.
PipeReceiveTwo ==
  /\ mode = "file"
  /\ Quiescent
  /\ Len(Events("received")) + 1 < MaxPipeSession
  /\ \E q1 \in PipeRequests : \E q2 \in PipeRequests :
       LET dates == <<clock, clock, clock>>
           turn == RunTurn(store, mode, dates,
                           <<ApiNewTask(q1, dates), ApiNewTask(q2, dates)>>, 1, <<>>)
       IN /\ store' = turn.st
          /\ last' = Exchange(turn.done[Len(turn.done)])
          /\ hist' = hist \o <<Received(q1), Received(q2)>>
                          \o [i \in 1..Len(turn.done) |-> Served(turn.done[i], mode)]
  /\ UNCHANGED <<mode, db, jobs, clock, tasks, boot>>

\* The collection call slot r's handler awaits returns.
PipeStep(r) ==
  /\ tasks[r].pc # "idle"
  /\ PipeSettle(r, ApiStep(store, mode, <<clock, clock, clock>>, tasks[r]), <<>>)

PipeNext ==
  \/ Tick
  \/ PipeReceiveTwo
  \/ \E r \in Slots :
       \/ PipeReceive(r)
       \/ PipeStep(r)

\* test-server.js serving requests that are in flight together.
PipeSpec == ApiInit /\ [][PipeNext]_vars

\* ------------------------------------- test-server.js: a backend that fails
\* One client's requests, one of each kind the server has a handler for.
FaultRequests ==
  {ApiReq("GET /api/posts", 0, "", <<>>, <<>>, FALSE),
   ApiReq("POST /api/posts", 0, "", <<"a">>, <<>>, FALSE),
   ApiReq("POST /api/comments/post/:postId", 1, "james@gmail.com", <<"a">>, <<>>, FALSE),
   ApiReq("DELETE /api/posts/:postId", 1, "", <<>>, <<>>, FALSE),
   ApiReq("DELETE /api/comments/:commentId", StartClock, "james@gmail.com", <<>>, <<>>, FALSE),
   ApiReq("POST /api/register", 0, "james@gmail.com", <<>>, <<>>, FALSE),
   BanReq("james@gmail.com", TRUE)}

\* A storage call of request q's handler threw.
Threw(q, call) == [ev |-> "threw", req |-> q, call |-> call]

\* Slot r's handler has reached s: the calls that threw and the request
\* answered join the events.
FaultSettle(r, s) ==
  /\ ApiReach(r, s, <<clock, clock, clock>>)
  /\ hist' = hist \o [i \in 1..Len(s.threw) |-> Threw(s.t.req, s.threw[i])]
                 \o (IF s.t.pc = "done" THEN <<Served(s.t, mode)>> ELSE <<>>)

\* A request arrives once the one before it has been answered; the reads,
\* the writes, both or neither fail while it is served.
FaultReceive(r) ==
  /\ mode # "mysql"
  /\ Quiescent
  /\ r = 1
  /\ Len(Events("served")) < MaxFaultSession
  /\ \E q \in FaultRequests : \E bad \in SUBSET {"load", "save"} :
       FaultSettle(r, IF mode = "file"
                      THEN RunApiOrThrow(store, mode, <<clock, clock, clock>>,
                                         ApiNewTask(q, <<clock, clock, clock>>), bad)
                      ELSE [st |-> store, t |-> ApiNewTask(q, <<clock, clock, clock>>),
                            started |-> <<>>, threw |-> <<>>])

\* The collection call slot r's handler awaits returns or throws.
FaultResume(r) ==
  /\ tasks[r].pc # "idle"
  /\ \E bad \in SUBSET {"load", "save"} :
       FaultSettle(r, ApiStepOrThrow(store, mode, <<clock, clock, clock>>, tasks[r], bad))

FaultNext ==
  \/ BackgroundSave
  \/ \E r \in Slots :
       \/ FaultReceive(r)
       \/ FaultResume(r)

\* test-server.js serving one client over a backend that may fail.
FaultSpec == ApiInit /\ [][FaultNext]_vars

\* ---------------------------------------------- storage.js: the selection
\* What an earlier run of the server may have left.
EarlierPost ==
  NewPost(ApiReq("POST /api/posts", 0, "", <<"a">>, <<>>, FALSE), StartClock - 1)

EarlierComment ==
  NewComment(ApiReq("POST /api/comments/post/:postId", StartClock - 1, "", <<"a">>, <<>>, FALSE),
             StartClock - 2)

Migrated(coll, held) == [ev |-> "migrated", coll |-> coll, into |-> Size(held, coll)]

\* A feed read, the creation of a post and the deletion of the post an
\* earlier run left.
BootRequests ==
       RaceRequests
  \cup {ApiReq("DELETE /api/posts/:postId", EarlierPost.id, "", <<>>, <<>>, FALSE)}

\* storage.js has just been loaded: state.mode is 'file', state.ready is
\* false and the startup function has not reached its first statement.
BootInit ==
  /\ mode = "file"
  /\ db = EmptyDb
  /\ store \in {EmptyStore,
                [EmptyStore EXCEPT !.posts = <<EarlierPost>>, !.comments = <<EarlierComment>>]}
  /\ jobs = <<>>
  /\ clock = StartClock
  /\ tasks = [r \in Slots |-> IdleTask]
  /\ last = NoExchange
  /\ hist = <<>>
  /\ \E uri \in Uris :
       \E held \in {EmptyStore, [EmptyStore EXCEPT !.posts = <<EarlierPost>>]} :
         boot = Boot("start", uri, FALSE, held)

\* A step of the selection leaves the requests' side alone.
BootFrame ==
  /\ last' = NoExchange
  /\ UNCHANGED <<db, jobs, clock, tasks>>

\* The call the selection awaited threw: the catch block and the finally
\* block run.
BootThrow(threw) ==
  /\ mode' = ModeOnError(threw)
  /\ boot' = [boot EXCEPT !.pc = "caught", !.threw = threw, !.ready = TRUE]
  /\ UNCHANGED store

\* connectMongoIfAvailable returns { mode: 'mongo' }: from here on the
\* collections are what the Record Store reads and writes.
BootReturnMongo ==
  /\ mode' = "mongo"
  /\ store' = boot.held
  /\ boot' = [boot EXCEPT !.pc = "returned", !.ready = TRUE, !.held = store]

\* Collection boot.n is dealt with: on to the next one, or return.
BootNextCollection ==
  IF boot.n < Len(Collections)
  THEN /\ boot' = [boot EXCEPT !.pc = "count", !.n = boot.n + 1, !.docs = <<>>]
       /\ UNCHANGED <<mode, store>>
  ELSE BootReturnMongo

\* The startup function up to its first await.
BootStart ==
  /\ boot.pc = "start"
  /\ BootFrame
  /\ UNCHANGED hist
  /\ IF boot.uri = ""
     THEN /\ mode' = "file"
          /\ boot' = [boot EXCEPT !.pc = "returned", !.ready = TRUE]
          /\ UNCHANGED store
     ELSE IF ~WellFormed(boot.uri)
     THEN BootThrow("MongoClient")
     ELSE /\ boot' = [boot EXCEPT !.pc = "connect"]
          /\ UNCHANGED <<mode, store>>

\* await mongoClient.connect() is over.
BootConnect ==
  /\ boot.pc = "connect"
  /\ BootFrame
  /\ UNCHANGED hist
  /\ \E ok \in BOOLEAN :
       IF ok
       THEN /\ boot' = [boot EXCEPT !.pc = "createIndex", !.n = 1]
            /\ UNCHANGED <<mode, store>>
       ELSE BootThrow("connect")

\* await collections.<n>.createIndex(..., { unique: true }) is over.
BootCreateIndex ==
  /\ boot.pc = "createIndex"
  /\ BootFrame
  /\ UNCHANGED hist
  /\ \E ok \in BOOLEAN :
       IF ~ok THEN BootThrow("createIndex")
       ELSE /\ boot' = IF boot.n < Len(Collections)
                       THEN [boot EXCEPT !.n = boot.n + 1]
                       ELSE [boot EXCEPT !.pc = "count", !.n = 1]
            /\ UNCHANGED <<mode, store>>

\* await collections.<n>.estimatedDocumentCount() is over: an empty
\* collection gets what the file holds, read now.
BootCount ==
  /\ boot.pc = "count"
  /\ BootFrame
  /\ UNCHANGED hist
  /\ \E ok \in BOOLEAN :
       LET coll == Collections[boot.n] IN
       IF ~ok THEN BootThrow("estimatedDocumentCount")
       ELSE IF Size(boot.held, coll) = 0 /\ Size(store, coll) > 0
       THEN /\ boot' = [boot EXCEPT !.pc = "insertMany", !.docs = store[coll]]
            /\ UNCHANGED <<mode, store>>
       ELSE BootNextCollection

\* await collections.<n>.insertMany(...) is over; what it throws is
\* swallowed.
BootSeed ==
  /\ boot.pc = "insertMany"
  /\ BootFrame
  /\ \E ok \in BOOLEAN :
       LET held == IF ok THEN Seeded(boot.held, Collections[boot.n], boot.docs) ELSE boot.held
       IN /\ hist' = IF ok THEN Append(hist, Migrated(Collections[boot.n], boot.held)) ELSE hist
          /\ IF boot.n < Len(Collections)
             THEN /\ boot' = [boot EXCEPT !.pc = "count", !.n = boot.n + 1, !.docs = <<>>,
                                          !.held = held]
                  /\ UNCHANGED <<mode, store>>
             ELSE /\ mode' = "mongo"
                  /\ store' = held
                  /\ boot' = [boot EXCEPT !.pc = "returned", !.ready = TRUE, !.docs = <<>>,
                                          !.held = store]

\* Slot r's handler has reached s; a request answered joins the events.
BootSettle(r, s) ==
  /\ ApiReach(r, s, <<clock, clock, clock>>)
  /\ hist' = IF s.t.pc = "done" THEN Append(hist, Served(s.t, mode)) ELSE hist

\* A request arrives, the one before it answered; the server listens from
\* the moment storage.js is loaded.
BootReceive(r) ==
  /\ boot.pc \notin {"none", "start"}
  /\ Quiescent
  /\ r = 1
  /\ Len(Events("served")) < MaxBootSession
  /\ \E q \in BootRequests :
       BootSettle(r, IF mode = "file"
                     THEN RunApi(store, mode, <<clock, clock, clock>>,
                                 ApiNewTask(q, <<clock, clock, clock>>))
                     ELSE ApiOut(store, ApiNewTask(q, <<clock, clock, clock>>), <<>>))

\* The collection call slot r's handler awaits returns.
BootStep(r) ==
  /\ tasks[r].pc # "idle"
  /\ BootSettle(r, ApiStep(store, mode, <<clock, clock, clock>>, tasks[r]))

BootNext ==
  \/ BootStart
  \/ BootConnect
  \/ BootCreateIndex
  \/ BootCount
  \/ BootSeed
  \/ BackgroundSave
  \/ \E r \in Slots :
       \/ BootReceive(r)
       \/ BootStep(r)

\* test-server.js from the loading of storage.js on.
BootSpec == BootInit /\ [][BootNext]_vars

\* The process ends and is started again with the same environment: the
\* files and the collections are as they were left, storage.js is loaded
\* anew, and what was awaited is gone.
Restart ==
  /\ boot.ready
  /\ Len(Events("restarted")) < MaxRestarts
  /\ mode' = "file"
  /\ store' = IF mode = "mongo" THEN boot.held ELSE store
  /\ boot' = Boot("start", boot.uri, FALSE, IF mode = "mongo" THEN store ELSE boot.held)
  /\ jobs' = <<>>
  /\ tasks' = [r \in Slots |-> IdleTask]
  /\ last' = NoExchange
  /\ hist' = Append(hist, Restarted)
  /\ UNCHANGED <<db, clock>>

RestartNext == BootNext \/ Restart

\* test-server.js run after run.
RestartSpec == BootInit /\ [][RestartNext]_vars

\* ======================================================================
\* Properties
\* ======================================================================
Count(S) == Cardinality(S)

\* The successful like toggles by user u on a subject in the session so far.
Toggles(kind, id, u) ==
  Count({i \in 1..Len(hist) :
           hist[i].req = Req(kind, id, u, <<>>) /\ hist[i].resp.status = 200})

\* C1: after N like toggles by U on S, served one after another, U holds a
\* Like on S exactly when N is odd, likes_count is the number of users with
\* an odd N, and no pair ever has two Like rows.
C1_TogglePairing ==
  /\ \A u \in UserIds :
       /\ RowCount(db.post_likes, 1, u) <= 1
       /\ RowCount(db.comment_likes, 1, u) <= 1
       /\ 1 \in DOMAIN db.posts =>
            RowCount(db.post_likes, 1, u) = Toggles("likePost", 1, u) % 2
       /\ 1 \in DOMAIN db.comments =>
            RowCount(db.comment_likes, 1, u) = Toggles("likeComment", 1, u) % 2
  /\ 1 \in DOMAIN db.posts =>
       db.posts[1].likes_count =
         (Toggles("likePost", 1, 1) % 2) + (Toggles("likePost", 1, 2) % 2)
  /\ 1 \in DOMAIN db.comments =>
       db.comments[1].likes_count =
         (Toggles("likeComment", 1, 1) % 2) + (Toggles("likeComment", 1, 2) % 2)

\* Three toggles by one user on the post while the other user's like stands,
\* and the comment liked too.
C1_Witness ==
  /\ 1 \in DOMAIN db.posts
  /\ \E u \in UserIds : Toggles("likePost", 1, u) = 3
  /\ \E u \in UserIds : Toggles("likePost", 1, u) = 1
  /\ db.posts[1].likes_count = 2

\* C6: under every interleaving of like toggles, no (subject, user) pair has
\* more than one Like row.
C6_OneLikeRowPerPair ==
  /\ \A row \in DOMAIN db.post_likes : db.post_likes[row] <= 1
  /\ \A row \in DOMAIN db.comment_likes : db.comment_likes[row] <= 1

\* Two toggles by the same user on the same post both saw no like; one has
\* inserted its row and the other is about to insert.
C6_Witness ==
  \E r1, r2 \in Slots :
    /\ r1 # r2
    /\ tasks[r1].req.kind = "likePost" /\ tasks[r2].req = tasks[r1].req
    /\ tasks[r1].pc = "update" /\ tasks[r1].loc = 0
    /\ tasks[r2].pc = "mutate" /\ tasks[r2].loc = 0
    /\ RowCount(db.post_likes, tasks[r1].req.id, tasks[r1].req.user) = 1

\* The Like rows of one subject.
LikeRows(likes, subject) ==
  BagCardinality(Restrict(likes, {row \in DOMAIN likes : row[1] = subject}))

\* C4: whenever no request is in flight, after any interleaving of like
\* toggles, likes_count of every post and comment is its number of Like rows.
C4_LikesCountMatchesRows ==
  Quiescent =>
    /\ \A p \in DOMAIN db.posts :
         db.posts[p].likes_count = LikeRows(db.post_likes, p)
    /\ \A c \in DOMAIN db.comments :
         db.comments[c].likes_count = LikeRows(db.comment_likes, c)

\* C5: whenever no request is in flight, after any interleaving of
\* add-comment, delete-comment and delete-post, comments_count of every post
\* is its number of Comment rows.
C5_CommentsCountMatchesRows ==
  Quiescent =>
    \A p \in DOMAIN db.posts :
      db.posts[p].comments_count =
        Count({c \in DOMAIN db.comments : db.comments[c].post_id = p})

\* The tables after the first k requests of the session.
RECURSIVE DbAfter(_)
DbAfter(k) ==
  IF k = 0 THEN EmptyDb
  ELSE RunHandler(DbAfter(k - 1), NewTask(hist[k].req)).db

\* The session has, from index i, toggle by u, toggle by u, toggle by v and
\* the author's delete of post 1, starting where the post has no likes.
Scenario(i, u, v) ==
  /\ i + 3 <= Len(hist)
  /\ hist[i].req = Req("likePost", 1, u, <<>>)
  /\ hist[i + 1].req = Req("likePost", 1, u, <<>>)
  /\ hist[i + 2].req = Req("likePost", 1, v, <<>>)
  /\ hist[i + 3].req.kind = "deletePost"
  /\ 1 \in DOMAIN DbAfter(i - 1).posts
  /\ DbAfter(i - 1).posts[1].likes_count = 0
  /\ LikeRows(DbAfter(i - 1).post_likes, 1) = 0
  /\ hist[i + 3].req = Req("deletePost", 1, DbAfter(i - 1).posts[1].user_id, <<>>)

\* C8: from a post with no likes, toggle by U answers liked with 1, toggle by
\* U answers unliked with 0, toggle by V answers liked with 1, the delete
\* succeeds, every later feed read is without the post and no Like row of V
\* on it remains.
C8_LikeUnlikeLikeDelete ==
  \A i \in 1..Len(hist) : \A u, v \in UserIds :
    Scenario(i, u, v) =>
      /\ hist[i].resp = Resp(200, "Post liked", <<1>>, <<>>)
      /\ hist[i + 1].resp = Resp(200, "Post unliked", <<0>>, <<>>)
      /\ hist[i + 2].resp = Resp(200, "Post liked", <<1>>, <<>>)
      /\ hist[i + 3].resp.status = 200
      /\ \A j \in (i + 4)..Len(hist) :
           hist[j].req.kind = "getPosts" =>
             \A n \in 1..Len(hist[j].resp.posts) : hist[j].resp.posts[n].id # 1
      /\ RowCount(db.post_likes, 1, v) = 0

\* The whole scenario with two different users, followed by a feed read.
C8_Witness ==
  /\ Len(hist) = 6
  /\ Scenario(2, 2, 1)
  /\ hist[6].req.kind = "getPosts"

\* C9: a feed read that follows a successful mutation gives every post a
\* comments_count equal to the number of comments attached to it.
C9_FeedCountsMatchAttached ==
  [][(/\ last.req.kind \in {"createPost", "addComment", "deletePost", "deleteComment"}
      /\ last.resp.status \in {200, 201}
      /\ last'.req.kind = "getFeed")
     => \A n \in 1..Len(last'.resp.posts) :
          last'.resp.posts[n].comments_count = Len(last'.resp.posts[n].comments)]_vars

\* C10: a like toggle on a post or comment that does not exist answers 404
\* and leaves no Like row for it.
C10_MissingSubjectIs404 ==
  /\ (last.req.kind = "likePost" /\ last.req.id \notin DOMAIN db.posts) =>
       last.resp.status = 404 /\ LikeRows(db.post_likes, last.req.id) = 0
  /\ (last.req.kind = "likeComment" /\ last.req.id \notin DOMAIN db.comments) =>
       last.resp.status = 404 /\ LikeRows(db.comment_likes, last.req.id) = 0

\* C2: once a delete-post request for P has been answered with success, there
\* is no post P, no comment on P and no like of P or of its comments.
C2_DeletePostLeavesNothing ==
  /\ (last.req.kind = "deletePost" /\ last.resp.status = 200) =>
       /\ last.req.id \notin DOMAIN db.posts
       /\ \A c \in DOMAIN db.comments : db.comments[c].post_id # last.req.id
       /\ LikeRows(db.post_likes, last.req.id) = 0
       /\ \A row \in DOMAIN db.comment_likes : row[1] \in DOMAIN db.comments
  /\ (last.req.kind = "DELETE /api/posts/:postId" /\ last.resp.status = 200) =>
       /\ \A i \in 1..Len(store.posts) : store.posts[i].id # last.req.id
       /\ \A i \in 1..Len(store.comments) : store.comments[i].post_id # last.req.id

\* A sequence without its i-th element.
Without(seq, i) == SubSeq(seq, 1, i - 1) \o SubSeq(seq, i + 1, Len(seq))

\* C3: a delete-comment request answered with success, with no other request
\* in flight, removes that one comment, takes exactly 1 off its post's
\* comments_count and leaves every other comment, post and counter as it was.
C3_DeleteCommentFrame ==
  [][/\ (last'.req.kind = "deleteComment" /\ last'.resp.status = 200) =>
          /\ last'.req.id \in DOMAIN db.comments
          /\ db'.comments = Restrict(db.comments, DOMAIN db.comments \ {last'.req.id})
          /\ db'.posts = [db.posts EXCEPT ![db.comments[last'.req.id].post_id].comments_count = @ - 1]
          /\ db'.post_likes = db.post_likes
          /\ db'.comment_likes = RowsOff(db.comment_likes, {last'.req.id})
     /\ (mode = "file" /\ last'.req.kind = "DELETE /api/comments/:commentId"
           /\ last'.resp.status = 200) =>
          /\ \E i \in 1..Len(store.comments) :
               /\ store.comments[i].id = last'.req.id
               /\ store'.comments = Without(store.comments, i)
          /\ store'.posts = store.posts]_vars

\* C7: a create-post or add-comment request with empty content and no
\* attachment is answered 400 and changes nothing that is stored.
C7_EmptyContentRejected ==
  [][(\/ /\ last'.req.kind \in {"createPost", "addComment"}
         /\ last'.req.content = <<>>
      \/ /\ last'.req.kind \in {"POST /api/posts", "POST /api/comments/post/:postId"}
         /\ last'.req.content = <<>>
         /\ last'.req.attachments = <<>>)
     => /\ last'.resp.status = 400
        /\ db' = db
        /\ store' = store
        /\ jobs' = jobs]_vars

\* An empty comment has just been refused while a post and a comment stand.
C7_Witness ==
  /\ last.req.kind = "POST /api/comments/post/:postId"
  /\ last.req.content = <<>> /\ last.req.attachments = <<>>
  /\ last.resp.status = 400
  /\ store.posts # <<>>
  /\ store.comments # <<>>

\* The documents of a collection that carry the id.
WithId(docs, id) == SelectSeq(docs, LAMBDA doc : doc.id = id)

\* C11: an add-comment request with something to post, naming a post that
\* does not exist, is answered 404 and stores no comment.
C11_CommentOnMissingPostIs404 ==
  [][/\ (/\ last'.req.kind = "addComment"
         /\ ~ContentMissing(last'.req.content)
         /\ last'.req.id \notin DOMAIN db.posts)
        => /\ last'.resp.status = 404
           /\ db'.comments = db.comments
     /\ (/\ mode = "file"
         /\ last'.req.kind = "POST /api/comments/post/:postId"
         /\ ~NothingToPost(last'.req)
         /\ WithId(store.posts, last'.req.id) = <<>>)
        => /\ last'.resp.status = 404
           /\ store'.comments = store.comments]_vars

\* C12: an add-comment request answered with success inserts exactly one
\* comment, on the post it names, and raises that post's comments_count by 1,
\* every other post staying as it was.
C12_AddCommentCountsOnce ==
  [][/\ (last'.req.kind = "addComment" /\ last'.resp.status = 201)
        => /\ last'.req.id \in DOMAIN db.posts
           /\ \E c \in DOMAIN db'.comments \ DOMAIN db.comments :
                /\ DOMAIN db'.comments = DOMAIN db.comments \cup {c}
                /\ db'.comments[c].post_id = last'.req.id
           /\ db'.posts = [db.posts EXCEPT ![last'.req.id].comments_count = @ + 1]
     /\ (/\ mode = "file"
         /\ last'.req.kind = "POST /api/comments/post/:postId"
         /\ last'.resp.status = 200)
        => /\ Len(store'.comments) = Len(store.comments) + 1
           /\ store'.comments[Len(store'.comments)].post_id = last'.req.id
           /\ \E i \in 1..Len(store.posts) :
                /\ store.posts[i].id = last'.req.id
                /\ "comments_count" \in DOMAIN store'.posts[i]
                /\ \A j \in 1..Len(store.posts) : j # i => store'.posts[j] = store.posts[j]]_vars

\* C14: a delete-post request on an existing post by someone who is neither
\* its author nor an admin is answered 403 and removes nothing.
C14_DeletePostNeedsAuthorOrAdmin ==
  [][/\ (/\ last'.req.kind = "deletePost"
         /\ last'.req.id \in DOMAIN db.posts
         /\ db.posts[last'.req.id].user_id # last'.req.user)
        => /\ last'.resp.status = 403
           /\ db' = db
     /\ (/\ mode = "file"
         /\ last'.req.kind = "DELETE /api/posts/:postId"
         /\ WithId(store.posts, last'.req.id) # <<>>
         /\ Head(WithId(store.posts, last'.req.id)).user_email # last'.req.email
         /\ ~last'.req.isAdmin
         /\ last'.req.email # "admin@startup.com")
        => /\ last'.resp.status = 403
           /\ store' = store]_vars

\* C15: a delete-comment request on an existing comment is answered 403, the
\* comment staying, when the caller is neither its author nor an admin, and
\* with success when the caller is the author or an admin.
C15_DeleteCommentNeedsAuthorOrAdmin ==
  [][/\ (/\ last'.req.kind = "deleteComment"
         /\ last'.req.id \in DOMAIN db.comments)
        => IF db.comments[last'.req.id].user_id = last'.req.user
           THEN last'.resp.status = 200
           ELSE last'.resp.status = 403 /\ db' = db
     /\ (/\ mode = "file"
         /\ last'.req.kind = "DELETE /api/comments/:commentId"
         /\ WithId(store.comments, last'.req.id) # <<>>)
        => IF \/ Head(WithId(store.comments, last'.req.id)).user_email = last'.req.email
              \/ last'.req.isAdmin
              \/ last'.req.email = "admin@startup.com"
           THEN last'.resp.status = 200
           ELSE last'.resp.status = 403 /\ store' = store]_vars

\* C16: a delete-post or delete-comment request naming a post or comment
\* that does not exist is answered 404 and changes nothing that is stored.
C16_DeleteOfMissingIs404 ==
  [][/\ (\/ /\ last'.req.kind = "deletePost"
            /\ last'.req.id \notin DOMAIN db.posts
         \/ /\ last'.req.kind = "deleteComment"
            /\ last'.req.id \notin DOMAIN db.comments)
        => /\ last'.resp.status = 404
           /\ db' = db
     /\ (/\ mode = "file"
         /\ \/ /\ last'.req.kind = "DELETE /api/posts/:postId"
               /\ WithId(store.posts, last'.req.id) = <<>>
            \/ /\ last'.req.kind = "DELETE /api/comments/:commentId"
               /\ WithId(store.comments, last'.req.id) = <<>>)
        => /\ last'.resp.status = 404
           /\ store' = store]_vars

\* C17: a create-post or add-comment request passes the content check
\* exactly when its content is non-empty after trimming or its attachment
\* list is non-empty; the relational routers read no attachment list.
C17_ContentOrAttachments ==
  [][/\ last'.req.kind \in {"createPost", "addComment"}
        => (last'.resp.status # 400 <=> Trim(last'.req.content) # <<>>)
     /\ last'.req.kind \in {"POST /api/posts", "POST /api/comments/post/:postId"}
        => (last'.resp.status # 400 <=>
              (Trim(last'.req.content) # <<>> \/ last'.req.attachments # <<>>))]_vars

\* C18: a feed read gives the posts newest first and, in each post, its
\* comments oldest first, on the files and on MongoDB.
C18_FeedNewestFirst ==
  (last.req.kind = "GET /api/posts" /\ last.resp.status = 200) =>
    /\ \A i, j \in 1..Len(last.resp.posts) :
         i < j => last.resp.posts[i].created_at >= last.resp.posts[j].created_at
    /\ \A n \in 1..Len(last.resp.posts) :
         \A i, j \in 1..Len(last.resp.posts[n].comments) :
           i < j => last.resp.posts[n].comments[i].created_at
                      <= last.resp.posts[n].comments[j].created_at

\* C19: under every interleaving, a step of the feed read changes the stored
\* posts only when none is stored, and then to the three sample posts, and
\* it never changes the stored comments.
C19_FeedReadSeedsOnlyWhenEmpty ==
  [][\A r \in Slots :
       (tasks[r].req.kind = "GET /api/posts" /\ tasks'[r] # tasks[r]) =>
         /\ store'.comments = store.comments
         /\ store'.posts # store.posts =>
              /\ store.posts = <<>>
              /\ [i \in 1..Len(store'.posts) |-> store'.posts[i].id] = <<1, 2, 3>>]_vars

\* The latest ban request on the account before the j-th exchange set the
\* flag and was answered with success.
BannedBefore(j, email) ==
  \E i \in 1..(j - 1) :
    /\ hist[i].req = BanReq(email, TRUE)
    /\ hist[i].resp.status = 200
    /\ \A k \in (i + 1)..(j - 1) : hist[k].req.kind # "POST /api/admin/ban/:userEmail"

\* C13: an add-comment request of an account whose latest answered ban
\* request set the ban flag is answered 403, and no comment of that account
\* is stored while it is banned.
C13_BannedCannotComment ==
  \A j \in 1..Len(hist) :
    (/\ hist[j].req.kind = "POST /api/comments/post/:postId"
     /\ BannedBefore(j, hist[j].req.email))
    => /\ hist[j].resp.status = 403
       /\ hist[j].resp.posts = <<>>

\* C20: once a call of the selection has thrown, whichever it was, state.mode
\* is 'file' and state.ready is set, no request is answered with an error,
\* and every Record Store call is a file call: no handler waits for a
\* collection, no save is left running, the collections stay as they are
\* and the selection is not run again.
C20_FailedSelectionFallsBackToFile ==
  [][/\ boot'.pc = "caught" =>
          /\ mode' = "file"
          /\ boot'.ready
          /\ last'.resp.status # 500
     /\ boot.pc = "caught" =>
          /\ boot' = boot
          /\ jobs' = <<>>
          /\ \A r \in Slots : tasks'[r].pc = "idle"]_vars

\* The connection was made, the creation of an index failed, and a post
\* created afterwards is in the file while the collections are untouched.
C20_Witness ==
  /\ boot.pc = "caught"
  /\ boot.threw = "createIndex"
  /\ mode = "file"
  /\ last.req.kind = "POST /api/posts"
  /\ last.resp.status = 200
  /\ Created(store.posts) = 1
  /\ boot.held.posts = <<EarlierPost>>

\* C21: the backend mode is decided once at startup: within one run of the
\* process no Record Store call is made under a mode other than the mode of
\* a later call, so any two requests answered in the same run were served
\* under the same mode.
SameRun(i, j) == \A k \in i..j : hist[k].ev # "restarted"

C21_ModeDecidedOnce ==
  \A i \in 1..Len(hist) : \A j \in i..Len(hist) :
    (hist[i].ev = "served" /\ hist[j].ev = "served" /\ SameRun(i, j))
      => hist[i].mode = hist[j].mode

\* C22: at startup on MongoDB the data of a file is inserted into its
\* collection only if the collection is empty at that moment, and over all
\* requests and restarts each collection is seeded from its file once only.
C22_MigratedExactlyOnce ==
  \A i \in 1..Len(hist) :
    hist[i].ev = "migrated" =>
      /\ hist[i].into = 0
      /\ \A j \in 1..Len(hist) :
           (hist[j].ev = "migrated" /\ hist[j].coll = hist[i].coll) => j = i

\* C23: whenever a load or a save of the Record Store fails while a request
\* is served, the caller is answered 500 and never a success, and no call
\* that failed is made a second time for that request.
ServedNext(i) ==
  LET later == {j \in i..Len(hist) : hist[j].ev = "served"}
  IN IF later = {} THEN 0 ELSE Min(later)

C23_FailedCallIs500 ==
  \A i \in 1..Len(hist) :
    hist[i].ev = "threw" =>
      /\ ServedNext(i) # 0 => hist[ServedNext(i)].resp.status = 500
      /\ \A j \in 1..Len(hist) :
           (hist[j].ev = "threw" /\ ServedNext(j) = ServedNext(i)
              /\ hist[j].call = hist[i].call) => j = i

\* C24: a request's write is lost when another request's load-mutate-save
\* comes between its load and its save, on the files as on MongoDB, and in
\* no other way: with every request so far answered 200, a created post or
\* comment is missing from the store only if its request, or two requests
\* after it, were in flight together.
InFlightAfter(k) ==
  Len(SelectSeq(SubSeq(hist, 1, k), LAMBDA e : e.ev = "received"))
    - Len(SelectSeq(SubSeq(hist, 1, k), LAMBDA e : e.ev = "served"))

\* The request answered by event j was served with no other in flight.
ServedAlone(j) ==
  /\ j > 1
  /\ hist[j - 1].ev = "received"
  /\ InFlightAfter(j - 2) = 0

CollectionOf(q) == IF q.kind = "POST /api/posts" THEN "posts" ELSE "comments"

\* The post or comment created by the request that event j answers is not
\* stored.
Lost(j) ==
  /\ hist[j].ev = "served"
  /\ \A k \in 1..Len(store[CollectionOf(hist[j].req)]) :
       store[CollectionOf(hist[j].req)][k] # hist[j].resp.posts[1]

AllAnswered200 ==
  /\ Quiescent
  /\ \A j \in 1..Len(hist) : hist[j].ev = "served" => hist[j].resp.status = 200

C24_WritesLostOnlyToOverlap ==
  AllAnswered200 =>
    \A j \in 1..Len(hist) :
      Lost(j) => \/ ~ServedAlone(j)
                 \/ \E k \in j..Len(hist) : InFlightAfter(k) >= 2

C24_Witness ==
  /\ mode = "file"
  /\ AllAnswered200
  /\ \E j \in 1..Len(hist) : Lost(j)

\* C25: with one caller at a time the two backends cannot be told apart:
\* on the files and on MongoDB alike loadPosts and loadComments return the
\* sequence saved last, in its order, and loadUsers the mapping saved last.
Load(st, m, coll) ==
  CASE coll = "posts" -> loadPosts(st, m)
    [] coll = "comments" -> loadComments(st)
    [] coll = "users" -> loadUsers(st)

C25_BackendsIndistinguishable ==
  /\ \A coll \in {"users", "posts", "comments"} :
       Load(store, "file", coll) = Load(boot.held, "mongo", coll)
  /\ \A i \in 1..Len(hist) :
       hist[i].ev = "saved" =>
         /\ Load(store, "file", hist[i].coll) = hist[i].docs
         /\ Load(boot.held, "mongo", hist[i].coll) = hist[i].docs

\* C26: in every reachable state every stored comment's post_id names a
\* post that is stored: no comment is left without its post.
C26_NoOrphanComments ==
  /\ \A c \in DOMAIN db.comments : db.comments[c].post_id \in DOMAIN db.posts
  /\ \A i \in 1..Len(store.comments) :
       \E k \in 1..Len(store.posts) : store.posts[k].id = store.comments[i].post_id

\* C27: in every reachable state no two stored posts share an id and no two
\* stored comments share an id, whichever the backend and also when two are
\* created at one reading of the clock.
C27_IdsUnique ==
  \A coll \in {"posts", "comments"} :
    \A i \in 1..Len(store[coll]) : \A j \in 1..Len(store[coll]) :
      store[coll][i].id = store[coll][j].id => i = j

\* C28: in every reachable state, like toggles and comment deletions
\* interleaved as they may be, every post's likes_count and comments_count
\* and every comment's likes_count is at least 0.
C28_CountersNotNegative ==
  /\ \A p \in DOMAIN db.posts :
       db.posts[p].likes_count >= 0 /\ db.posts[p].comments_count >= 0
  /\ \A c \in DOMAIN db.comments : db.comments[c].likes_count >= 0

\* C29: when a request that deletes a post, registers a user or sets a ban
\* is answered with success, every write of its handler is done: a load
\* that starts after the answer finds the post gone, the user stored, the
\* ban flag as requested.
C29_WritesDoneBeforeAnswer ==
  LET q == last.req
      users == loadUsers(store)
  IN /\ (q.kind = "DELETE /api/posts/:postId" /\ last.resp.status = 200) =>
          WithId(loadPosts(store, mode), q.id) = <<>>
     /\ (q.kind = "POST /api/register" /\ last.resp.status = 201) =>
          q.email \in DOMAIN users
     /\ (q.kind = "POST /api/admin/ban/:userEmail" /\ last.resp.status = 200) =>
          /\ q.email \in DOMAIN users
          /\ "banned" \in DOMAIN users[q.email]
          /\ users[q.email].banned = q.banned

\* C30: savePosts and saveComments replace the collection in one piece for
\* whoever reads it: each step of a save leaves the collection as it was or
\* holding exactly the documents being saved, never empty or in part.
C30_SaveReplacesAtomically ==
  [][\A r \in Slots :
       (tasks[r].pc \in SavePcs /\ tasks'[r] # tasks[r]) =>
         \/ store'[tasks[r].loc.coll] = store[tasks[r].loc.coll]
         \/ store'[tasks[r].loc.coll] = tasks[r].loc.docs]_vars


====
